---- MODULE Spec2Model ----
(***************************************************************************)
(* av1transcoder: the scene pipeline of one process run.                   *)
(*                                                                         *)
(* The driver (av1transcoder.main) walks the input files one after the     *)
(* other.  For each file it prepares the directories, generates the scene  *)
(* cuts, creates one command line per scene and stage, hands the batch to  *)
(* a thread pool, joins the batch, and decides on the concatenation.       *)
(* The per-file variables describe the input file the driver is at; they   *)
(* are re-initialised when the driver takes the next file.                 *)
(***************************************************************************)
EXTENDS Integers, Sequences, FiniteSets, TLC

\* ------------------------------------------------------------------ bounds
NumFiles == 2       \* input files on the command line that carry video data
MaxScenes == 2      \* scenes generate_scene_cuts returns for one file
MaxLimit == 2       \* largest --limit-encodes value tried
MaxLogSize == 2     \* largest byte size of a first pass log
MaxWorkers == 2     \* largest --max-concurrent-encodes value tried
MaxLines == 4       \* lines of raw_timestamps.txt
MaxCuts == 4        \* scene cuts the detector reports for one file
MaxDuration == 2    \* longest short scene, in seconds
LongDuration == 10  \* a long scene, in seconds
MaxMinSceneLength == 5  \* largest --min-scene-length value tried
MaxChapters == 2    \* chapters ffprobe reports for one file
MaxStreams == 2     \* video streams ffprobe reports for one file
MaxTime == 1        \* largest chapter start or end time, in seconds
MaxListed == 11     \* largest scene number in completed_dir when the listing is written

\* ------------------------------------------------------------ basic values
Stages == {"single", "pass1", "pass2"}
DumpModes == {"no", "yes", "only"}
JobStates == {"Pending", "Running", "Succeeded", "Failed"}

\* arguments.limit_encodes is None or an integer: <<>> is None, <<k>> is k.
NoLimit == <<>>
Limit(k) == <<k>>
HasLimit(l) == l # <<>>
LimitValue(l) == l[1]

Min(a, b) == IF a <= b THEN a ELSE b

\* ------------------------------------------------------------- file names
\* A file of completed_dir that matches the glob "scene_*.mkv" is written as
\* the token sequence the star stands for: scene_7.mkv is <<"7">>,
\* scene_01.mkv is <<"0","1">>, scene_x.mkv is <<"x">>.  The token ".mkv"
\* may occur inside the star part (scene_1.mkv.bak.mkv).
Digits == {"0", "1", "2", "3", "4", "5", "6", "7", "8", "9"}

DigitValue(c) ==
    CASE c = "0" -> 0 [] c = "1" -> 1 [] c = "2" -> 2 [] c = "3" -> 3
      [] c = "4" -> 4 [] c = "5" -> 5 [] c = "6" -> 6 [] c = "7" -> 7
      [] c = "8" -> 8 [] c = "9" -> 9

DigitChar(d) ==
    CASE d = 0 -> "0" [] d = 1 -> "1" [] d = 2 -> "2" [] d = 3 -> "3"
      [] d = 4 -> "4" [] d = 5 -> "5" [] d = 6 -> "6" [] d = 7 -> "7"
      [] d = 8 -> "8" [] d = 9 -> "9"

RECURSIVE DecimalValue(_)
DecimalValue(s) ==
    IF s = <<>> THEN 0
    ELSE 10 * DecimalValue(SubSeq(s, 1, Len(s) - 1)) + DigitValue(s[Len(s)])

RECURSIVE DecimalString(_)
DecimalString(k) ==
    IF k < 10 THEN <<DigitChar(k)>>
    ELSE Append(DecimalString(k \div 10), DigitChar(k % 10))

\* AbstractEncoderCommandLine.output_scene_file_name: f"scene_{scene_number}.mkv"
output_scene_file_name(scene_number) == DecimalString(scene_number)

\* stream_number_re = scene_(?P<number>[0]|[1-9][0-9]*)\.mkv, used with
\* re.match: anchored at the start of the name, not at its end.  The result is
\* <<>> for "no match" (None) and <<number>> for a match.
stream_number_re_match(name) ==
    LET text == Append(name, ".mkv")
        k == (CHOOSE i \in 1..Len(text) :
                 /\ text[i] = ".mkv"
                 /\ \A j \in 1..(i - 1) : text[j] # ".mkv") - 1
        number == SubSeq(text, 1, k)
    IN  IF /\ k >= 1
           /\ \A j \in 1..k : number[j] \in Digits
           /\ \/ number = <<"0">>
              \/ number[1] \in Digits \ {"0"}
        THEN <<DecimalValue(number)>>
        ELSE <<>>

\* ------------------------------------------------------------------ state
VARIABLES
    arguments,        \* the parsed command line (Namespace); limit_encodes is mutated
    fileIdx,          \* position of the for loop of main in input_files (0: before the first)
    pc,               \* where the driver (the scheduler thread) stands
    exception,        \* the uncaught exception that ended the run, "None" otherwise
    outcome,          \* per input file: what the run did with it
    scenes,           \* len(input_file.scenes) of the current file
    completed_dir,    \* current file: completed_scenes/ (scene files and first pass logs)
    in_progress_dir,  \* current file: in_progress_scenes/
    temp_dir_exists,  \* current file: the temporary directory tree is on disk
    raw_timestamps,   \* current file: temp_dir/raw_timestamps.txt is on disk
    detection,        \* current file: state of the scene cut detection command line
    cli,              \* current file: the encoder command lines, per stage and scene
    stage,            \* current file: the stage of the batch handed to the executor
    batch,            \* current file: the command lines handed to executor.map, in order
    concat,           \* current file: state of the ConcatFilterCommandLine
    toolRuns,         \* current file: the encoder command lines that executed ffmpeg
    log_sizes,        \* current file: the first pass log sizes the cost ordering read
    completed0,       \* current file: completed_dir as found when the pipeline started
    limitFile0,       \* arguments.limit_encodes when the current file was taken
    limit0,           \* arguments.limit_encodes as configured
    encodes,          \* single pass and second pass runs that ended finished, all files
    probed,           \* the input files read_input_files has run ffprobe on
    prep,             \* directory preparation of one input file, step by step
    parser,           \* parse_raw_timestamps_from_file: the lines read and the scenes built
    merger,           \* merge_short_scenes: the Scene objects, the list passed and the list returned
    collector,        \* InputFile.collect_file_data: the chapters and video streams of one InputFile
    listing           \* ConcatFilterCommandLine.run_hook: the files globbed and the listing written

runVars == <<arguments, fileIdx, pc, exception, outcome, limit0, encodes>>
diskVars == <<completed_dir, in_progress_dir, temp_dir_exists, raw_timestamps, completed0>>
jobVars == <<scenes, detection, cli, stage, batch, concat, toolRuns, log_sizes, limitFile0>>
sideVars == <<prep, parser, merger, collector, listing>>
vars == <<runVars, diskVars, jobVars, probed, sideVars>>

Files == 1..NumFiles

NoCommandLines == [st \in Stages |-> <<>>]
EmptyDir == [scenes |-> {}, logs |-> {}]

\* prep and parser while no directory preparation / no parse is looked at.
NoPrep == [pc |-> "none", same |-> FALSE,
           output_dir |-> "dir", temp_dir |-> "dir", subdirs |-> FALSE,
           output_dir0 |-> "dir", temp_dir0 |-> "dir", result |-> "None"]
NoParser == [pc |-> "none", raw_timestamps |-> <<>>, scenes |-> <<>>]
NoMerger == [pc |-> "none"]
NoCollector == [pc |-> "none"]
NoListing == [pc |-> "none"]

\* The names the completed directory may hold when the run finds it: scene
\* files of earlier runs (also of a run with more scenes), and a stray file.
\* logs is the set of scene numbers N with a first pass log scene_N-<id>.log.
SceneNames == {output_scene_file_name(k) : k \in 0..MaxScenes}
StrayNames == {<<"x">>}
FoundCompletedDirs ==
    { [scenes |-> ss \cup st, logs |-> lg] :
        ss \in SUBSET SceneNames,
        st \in {{}} \cup {{x} : x \in StrayNames},
        lg \in SUBSET (0..(MaxScenes - 1)) }

\* ------------------------------------------------------- pure functions
\* all_scenes_completed with the comparison weakened to "every required scene
\* is there" (extra numbers accepted).
all_scenes_completed_superset(dir, n) ==
    IF \E name \in dir.scenes : stream_number_re_match(name) = <<>>
    THEN "TypeError"
    ELSE LET scene_numbers == {stream_number_re_match(name)[1] : name \in dir.scenes}
             required_scenes == 0..(n - 1)
         IN  IF required_scenes \subseteq scene_numbers THEN "True" ELSE "False"

\* all_scenes_completed with the comparison weakened to "no scene number is
\* out of range" (missing numbers accepted).
all_scenes_completed_subset(dir, n) ==
    IF \E name \in dir.scenes : stream_number_re_match(name) = <<>>
    THEN "TypeError"
    ELSE LET scene_numbers == {stream_number_re_match(name)[1] : name \in dir.scenes}
             required_scenes == 0..(n - 1)
         IN  IF scene_numbers \subseteq required_scenes THEN "True" ELSE "False"

\* InputFile.all_scenes_completed.  "TypeError" when a globbed name does not
\* match stream_number_re (None["number"]).
all_scenes_completed(dir, n) ==
    IF \E name \in dir.scenes : stream_number_re_match(name) = <<>>
    THEN "TypeError"
    ELSE LET scene_numbers == {stream_number_re_match(name)[1] : name \in dir.scenes}
             required_scenes == 0..(n - 1)
         IN  IF scene_numbers = required_scenes THEN "True" ELSE "False"

RECURSIVE SelectSeq2(_, _)
\* [c for c in seq if Keep(c)] for a set Keep of kept elements
SelectSeq2(seq, keep) ==
    IF seq = <<>> THEN <<>>
    ELSE IF Head(seq) \in keep THEN <<Head(seq)>> \o SelectSeq2(Tail(seq), keep)
    ELSE SelectSeq2(Tail(seq), keep)

\* _limit_and_filter_commands with the slice one too long: command_lines[:limit + 1].
_limit_and_filter_commands_off_by_one(args, command_lines, table) ==
    LET kept == IF ~args.force_overwrite
                THEN SelectSeq2(command_lines,
                                {s \in DOMAIN table :
                                    ~(table[s].finished \/ args.dump_commands = "only")})
                ELSE command_lines
    IN  IF HasLimit(args.limit_encodes)
        THEN SubSeq(kept, 1, Min(LimitValue(args.limit_encodes) + 1, Len(kept)))
        ELSE kept

\* _limit_and_filter_commands without the slice: the limit is not applied.
_limit_and_filter_commands_unlimited(args, command_lines, table) ==
    IF ~args.force_overwrite
    THEN SelectSeq2(command_lines,
                    {s \in DOMAIN table :
                        ~(table[s].finished \/ args.dump_commands = "only")})
    ELSE command_lines

\* _limit_and_filter_commands(arguments, command_lines): command_lines is the
\* list of scene numbers of the command lines of table `table`.
_limit_and_filter_commands(args, command_lines, table) ==
    LET kept == IF ~args.force_overwrite
                THEN SelectSeq2(command_lines,
                                {s \in DOMAIN table :
                                    ~(table[s].finished \/ args.dump_commands = "only")})
                ELSE command_lines
    IN  IF HasLimit(args.limit_encodes)
        THEN SubSeq(kept, 1, Min(LimitValue(args.limit_encodes), Len(kept)))
        ELSE kept

\* sorted(passes, key=size of the first log, reverse=True): stable, descending.
RECURSIVE InsertBySize(_, _, _)
InsertBySize(sorted, s, logs) ==
    IF sorted = <<>> THEN <<s>>
    ELSE IF logs[Head(sorted)] >= logs[s]
         THEN <<Head(sorted)>> \o InsertBySize(Tail(sorted), s, logs)
         ELSE <<s>> \o sorted

\* the list handed on as it came, not sorted
SortBySizeUnsorted(passes, logs) == passes

\* sorted(passes, key=key, reverse=True): stable, equal keys keep their order
RECURSIVE SortBySize(_, _)
SortBySize(passes, logs) ==
    IF passes = <<>> THEN <<>>
    ELSE InsertBySize(SortBySize(SubSeq(passes, 1, Len(passes) - 1), logs),
                      passes[Len(passes)], logs)

\* _sorted_first_passes(passes): <<>> stands for the IndexError of
\* sorted(all_logs)[0] when a pass has no log in completed_dir, <<list>> is
\* the sorted list.
\* sizes[N] is the st_size of the first log of scene N.
_sorted_first_passes(passes, dir, sizes) ==
    IF \E i \in 1..Len(passes) : passes[i] \notin dir.logs
    THEN <<>>
    ELSE <<SortBySize(passes, sizes)>>

AllScenes(n) == [i \in 1..n |-> i - 1]
NewCommandLines(sceneSet) == [s \in sceneSet |-> [finished |-> FALSE, state |-> "Pending"]]
Range(seq) == {seq[i] : i \in 1..Len(seq)}
Terminal(job) == job.state \in {"Succeeded", "Failed"}
\* the map left undriven: the scheduler goes on without waiting for the batch
BatchJoinedNoWait == TRUE

\* tuple() drove executor.map: every command line of the batch has returned
BatchJoined == \A s \in Range(batch) : Terminal(cli[stage][s])
Finished(table) == {s \in DOMAIN table : table[s].finished}

\* ------------------------------------------------------------------- Init
Init ==
    /\ \E fo \in BOOLEAN, dm \in DumpModes, sp \in BOOLEAN, kt \in BOOLEAN,
          mw \in {MaxWorkers}, le \in {NoLimit} \cup {Limit(k) : k \in 0..MaxLimit} :
          /\ arguments = [force_overwrite |-> fo, dump_commands |-> dm,
                          enable_single_pass_encode |-> sp, keep_temp |-> kt,
                          max_concurrent_encodes |-> mw, limit_encodes |-> le]
          /\ limit0 = le
          /\ limitFile0 = le
    /\ fileIdx = 0
    /\ pc = "read"
    /\ exception = "None"
    /\ encodes = 0
    /\ probed = {}
    /\ prep = NoPrep
    /\ parser = NoParser
    /\ merger = NoMerger
    /\ collector = NoCollector
    /\ listing = NoListing
    /\ outcome = [f \in Files |-> "untouched"]
    /\ scenes = 0
    /\ completed_dir = EmptyDir
    /\ in_progress_dir = EmptyDir
    /\ temp_dir_exists = FALSE
    /\ raw_timestamps = FALSE
    /\ detection = "None"
    /\ cli = NoCommandLines
    /\ stage = "none"
    /\ batch = <<>>
    /\ concat = "None"
    /\ toolRuns = {}
    /\ log_sizes = <<>>
    /\ completed0 = EmptyDir

\* ------------------------------------------------------------ the driver
Raise(e) ==
    /\ pc' = "crashed"
    /\ exception' = e

\* main: input_files = read_input_files(arguments).  Every input file of the
\* list is created and probed (collect_file_data runs ffprobe) before the loop
\* over the files starts.  Files is the list returned.
ReadInputFiles ==
    /\ pc = "read"
    /\ probed' = Files
    /\ pc' = "main"
    /\ UNCHANGED <<arguments, fileIdx, exception, outcome, limit0, encodes, sideVars,
                   diskVars, jobVars>>

\* read_input_files: the k-th file is probed and collect_file_data raises,
\* CalledProcessError when ffprobe exits non-zero, ValueError when
\* Chapter._validate_chapter_times finds a chapter that ends before it starts.
\* Neither read_input_files nor main catches it: the run ends before the loop.
ReadInputFilesRaises ==
    /\ pc = "read"
    /\ \E k \in Files : probed' = 1..k
    /\ \E e \in {"CalledProcessError", "ValueError"} : Raise(e)
    /\ UNCHANGED <<arguments, fileIdx, outcome, limit0, encodes, sideVars, diskVars, jobVars>>

\* main, the head of `for input_file in input_files` with the early abort:
\* the encode limit is 0, so this file and the later ones are not taken.
MainLimitHit ==
    /\ pc = "main"
    /\ fileIdx < NumFiles
    /\ arguments.limit_encodes = Limit(0)
    /\ pc' = "done"
    /\ UNCHANGED <<arguments, fileIdx, exception, outcome, limit0, probed, sideVars, encodes, diskVars, jobVars>>

\* main: the loop is exhausted.
MainEnd ==
    /\ pc = "main"
    /\ fileIdx = NumFiles
    /\ pc' = "done"
    /\ UNCHANGED <<arguments, fileIdx, exception, outcome, limit0, probed, sideVars, encodes, diskVars, jobVars>>

\* main without the early abort: the next file is taken whatever the limit is.
MainNextFileAnyLimit ==
    /\ pc = "main"
    /\ fileIdx < NumFiles
    /\ fileIdx' = fileIdx + 1
    /\ pc' = "prepare"
    /\ outcome' = [outcome EXCEPT ![fileIdx + 1] = "started"]
    /\ scenes' = 0
    /\ completed_dir' = EmptyDir
    /\ in_progress_dir' = EmptyDir
    /\ temp_dir_exists' = FALSE
    /\ raw_timestamps' = FALSE
    /\ completed0' = EmptyDir
    /\ detection' = "None"
    /\ cli' = NoCommandLines
    /\ stage' = "none"
    /\ batch' = <<>>
    /\ concat' = "None"
    /\ toolRuns' = {}
    /\ log_sizes' = <<>>
    /\ limitFile0' = arguments.limit_encodes
    /\ UNCHANGED <<arguments, exception, limit0, probed, sideVars, encodes>>

\* main: take the next input file.  Nothing of it has been touched yet.
MainNextFile ==
    /\ pc = "main"
    /\ fileIdx < NumFiles
    /\ arguments.limit_encodes # Limit(0)
    /\ fileIdx' = fileIdx + 1
    /\ pc' = "prepare"
    /\ outcome' = [outcome EXCEPT ![fileIdx + 1] = "started"]
    /\ scenes' = 0
    /\ completed_dir' = EmptyDir
    /\ in_progress_dir' = EmptyDir
    /\ temp_dir_exists' = FALSE
    /\ raw_timestamps' = FALSE
    /\ completed0' = EmptyDir
    /\ detection' = "None"
    /\ cli' = NoCommandLines
    /\ stage' = "none"
    /\ batch' = <<>>
    /\ concat' = "None"
    /\ toolRuns' = {}
    /\ log_sizes' = <<>>
    /\ limitFile0' = arguments.limit_encodes
    /\ UNCHANGED <<arguments, exception, limit0, probed, sideVars, encodes>>

\* What a directory path is when InputFile looks at it: a directory, absent
\* below a directory, absent below a plain file, or a plain file itself.
PathKinds == {"dir", "absent", "absent_under_file", "file"}

\* InputFile._handle_output_directory / _handle_temp_directory for a path of
\* the given kind; oserror says whether mkdir / unlink raise OSError.
_handle_directory(kind, force_overwrite, oserror) ==
    CASE kind = "dir" -> TRUE
      [] kind = "absent" -> ~oserror
      [] kind = "absent_under_file" -> force_overwrite /\ ~oserror
      [] kind = "file" -> force_overwrite /\ ~oserror

\* InputFile.handle_temp_directory_creation
handle_temp_directory_creation(outKind, tmpKind, force_overwrite, oserror) ==
    /\ _handle_directory(outKind, force_overwrite, oserror)
    /\ _handle_directory(tmpKind, force_overwrite, oserror)
    /\ ~oserror

\* main: the directories are ready.  A temporary directory that was already
\* there holds whatever earlier runs left in it; a new one is empty.
PrepareOk ==
    /\ pc = "prepare"
    /\ \E outKind \in PathKinds, tmpKind \in PathKinds, oserror \in BOOLEAN :
          /\ handle_temp_directory_creation(outKind, tmpKind, arguments.force_overwrite, oserror)
          /\ \E found \in FoundCompletedDirs, ts \in BOOLEAN :
                /\ tmpKind # "dir" => (found = EmptyDir /\ ~ts)
                /\ arguments.enable_single_pass_encode => found.logs = {}
                /\ completed_dir' = found
                /\ completed0' = found
                /\ raw_timestamps' = ts
    /\ temp_dir_exists' = TRUE
    /\ pc' = "detect"
    /\ UNCHANGED <<arguments, fileIdx, exception, outcome, limit0, probed, sideVars, encodes, in_progress_dir, jobVars>>

\* main with the pipeline entered although directory creation failed.
PrepareFailedFallsThrough ==
    /\ pc = "prepare"
    /\ \E outKind \in PathKinds, tmpKind \in PathKinds, oserror \in BOOLEAN :
          /\ ~handle_temp_directory_creation(outKind, tmpKind, arguments.force_overwrite, oserror)
          /\ temp_dir_exists' = (tmpKind = "dir")
    /\ pc' = "detect"
    /\ outcome' = [outcome EXCEPT ![fileIdx] = "prepare_failed"]
    /\ UNCHANGED <<arguments, fileIdx, exception, limit0, probed, sideVars, encodes, completed_dir,
                   in_progress_dir, raw_timestamps, completed0, jobVars>>

\* main: directory creation failed, the file is skipped with a warning.
PrepareFailed ==
    /\ pc = "prepare"
    /\ \E outKind \in PathKinds, tmpKind \in PathKinds, oserror \in BOOLEAN :
          /\ ~handle_temp_directory_creation(outKind, tmpKind, arguments.force_overwrite, oserror)
          /\ temp_dir_exists' = (tmpKind = "dir")
    /\ pc' = "main"
    /\ outcome' = [outcome EXCEPT ![fileIdx] = "prepare_failed"]
    /\ UNCHANGED <<arguments, fileIdx, exception, limit0, probed, sideVars, encodes, completed_dir,
                   in_progress_dir, raw_timestamps, completed0, jobVars>>

\* generate_scene_cuts: SceneCutDetectionCommandLine(...).run().  Dump mode
\* "only" is overridden to "yes", so ffmpeg is always executed; a non-zero
\* exit is logged and leaves finished False.
DetectRun ==
    /\ pc = "detect"
    /\ \E ok \in BOOLEAN : detection' = IF ok THEN "Succeeded" ELSE "Failed"
    /\ pc' = "parse"
    /\ UNCHANGED <<arguments, fileIdx, exception, outcome, limit0, probed, sideVars, encodes, diskVars,
                   scenes, cli, stage, batch, concat, toolRuns, log_sizes, limitFile0>>

\* generate_scene_cuts after the run: temp_dir/raw_timestamps.txt is parsed
\* and the short scenes are merged; the result has at least one scene.  The
\* detection command line is a local of generate_scene_cuts.
GenerateSceneCuts ==
    /\ pc = "parse"
    /\ raw_timestamps
    /\ \E n \in 1..MaxScenes : scenes' = n
    /\ detection' = "None"
    /\ pc' = "transcode"
    /\ UNCHANGED <<arguments, fileIdx, exception, outcome, limit0, probed, sideVars, encodes, diskVars,
                   cli, stage, batch, concat, toolRuns, log_sizes, limitFile0>>

\* generate_scene_cuts: raw_timestamps_path.open("r") finds no file.
GenerateSceneCutsNoFile ==
    /\ pc = "parse"
    /\ ~raw_timestamps
    /\ Raise("FileNotFoundError")
    /\ UNCHANGED <<arguments, fileIdx, outcome, limit0, probed, sideVars, encodes, diskVars, jobVars>>

\* ------------------------------------------------- creating and dispatching
\* _transcode_single_pass up to executor.map: one command line per scene
\* (AbstractCommandLine.__init__ sets finished = False), filtered and limited.
TranscodeSinglePass ==
    /\ pc = "transcode"
    /\ arguments.enable_single_pass_encode
    /\ LET all_command_lines == NewCommandLines(0..(scenes - 1))
       IN  /\ cli' = [cli EXCEPT !["single"] = all_command_lines]
           /\ batch' = _limit_and_filter_commands(arguments, AllScenes(scenes), all_command_lines)
    /\ stage' = "single"
    /\ pc' = "running"
    /\ UNCHANGED <<arguments, fileIdx, exception, outcome, limit0, probed, sideVars, encodes, diskVars,
                   scenes, detection, concat, toolRuns, log_sizes, limitFile0>>

\* _transcode_two_pass up to the executor.map of _transcode_two_pass_1.
TranscodeTwoPass1 ==
    /\ pc = "transcode"
    /\ ~arguments.enable_single_pass_encode
    /\ LET all_command_lines_pass_1 == NewCommandLines(0..(scenes - 1))
       IN  /\ cli' = [cli EXCEPT !["pass1"] = all_command_lines_pass_1]
           /\ batch' = _limit_and_filter_commands(arguments, AllScenes(scenes),
                                                  all_command_lines_pass_1)
    /\ stage' = "pass1"
    /\ pc' = "running"
    /\ UNCHANGED <<arguments, fileIdx, exception, outcome, limit0, probed, sideVars, encodes, diskVars,
                   scenes, detection, concat, toolRuns, log_sizes, limitFile0>>

\* every first pass handed on, finished or not
FinishedFirstPassesAll == AllScenes(scenes)

\* The first passes regarded as finished, in scene order (_transcode_two_pass,
\* the generator handed to _sorted_first_passes).
FinishedFirstPasses ==
    SelectSeq2(AllScenes(scenes),
               {s \in DOMAIN cli["pass1"] :
                   cli["pass1"][s].finished \/ arguments.dump_commands = "only"})

\* _create_two_pass_2_command_lines: one new command line per finished first
\* pass, in the given order; the ones that are finished are removed unless
\* force_overwrite is set.
_create_two_pass_2_command_lines(args, first_passes) ==
    LET table == NewCommandLines(Range(first_passes))
    IN  IF ~args.force_overwrite
        THEN SelectSeq2(first_passes, {s \in DOMAIN table : ~table[s].finished})
        ELSE first_passes

\* _transcode_two_pass after the first passes joined, up to the executor.map
\* of _transcode_two_pass_2.
TranscodeTwoPass2 ==
    /\ pc = "pass2"
    /\ \E sizes \in [Range(FinishedFirstPasses) -> 1..MaxLogSize] :
       LET sorted == _sorted_first_passes(FinishedFirstPasses, completed_dir, sizes)
       IN  /\ sorted # <<>>
           /\ log_sizes' = sizes
           /\ LET all_command_lines_pass_2 ==
                      _create_two_pass_2_command_lines(arguments, sorted[1])
                  table == NewCommandLines(Range(sorted[1]))
              IN  /\ cli' = [cli EXCEPT !["pass2"] = table]
                  /\ batch' = _limit_and_filter_commands(arguments,
                                                         all_command_lines_pass_2, table)
    /\ stage' = "pass2"
    /\ pc' = "running"
    /\ UNCHANGED <<arguments, fileIdx, exception, outcome, limit0, probed, sideVars, encodes, diskVars,
                   scenes, detection, concat, toolRuns, limitFile0>>

\* _sorted_first_passes: sorted(all_logs)[0] on a first pass without a log in
\* completed_dir.
TranscodeTwoPass2NoLog ==
    /\ pc = "pass2"
    /\ \E sizes \in [Range(FinishedFirstPasses) -> 1..MaxLogSize] :
          _sorted_first_passes(FinishedFirstPasses, completed_dir, sizes) = <<>>
    /\ Raise("IndexError")
    /\ UNCHANGED <<arguments, fileIdx, outcome, limit0, probed, sideVars, encodes, diskVars, jobVars>>

\* ------------------------------------------------------------ the workers
Running == {s \in Range(batch) : cli[stage][s].state = "Running"}
Pending == {i \in 1..Len(batch) : cli[stage][batch[i]].state = "Pending"}

\* AbstractCommandLine.run, up to and including the start of subprocess.run.
\* The pool has max_concurrent_encodes threads and a FIFO work queue.
RunStart(s) ==
    /\ pc = "running"
    /\ Pending # {}
    /\ s = batch[CHOOSE i \in Pending : \A j \in Pending : i <= j]
    /\ Cardinality(Running) < arguments.max_concurrent_encodes
    /\ cli' = [cli EXCEPT ![stage][s].state = "Running"]
    /\ toolRuns' = IF arguments.dump_commands # "only"
                   THEN toolRuns \cup {<<stage, s>>}
                   ELSE toolRuns
    /\ UNCHANGED <<runVars, probed, sideVars, diskVars, scenes, detection, stage, batch, concat, log_sizes, limitFile0>>

\* What ffmpeg leaves in in_progress_dir when it exits with 0: the encoded
\* scene, or for a first pass the log named by -passlogfile.
ToolOutput(dir, st, s) ==
    IF st = "pass1"
    THEN [dir EXCEPT !.logs = dir.logs \cup {s}]
    ELSE [dir EXCEPT !.scenes = dir.scenes \cup {output_scene_file_name(s)}]

\* AbstractCommandLine.run after subprocess.run returned 0.
run_succeeded(job) == [job EXCEPT !.finished = TRUE, !.state = "Succeeded"]

\* run with the else branch taken on a non-zero exit as well.
run_failed_finished(job) == [job EXCEPT !.finished = TRUE, !.state = "Failed"]

\* AbstractCommandLine.run after subprocess.run returned non-zero.
run_failed(job) == [job EXCEPT !.state = "Failed"]

\* run that takes the encode off the limit itself, in the worker thread
RunSucceedsCounts(s) ==
    /\ pc = "running"
    /\ s \in Running
    /\ arguments.dump_commands # "only"
    /\ cli' = [cli EXCEPT ![stage][s] = run_succeeded(@)]
    /\ in_progress_dir' = ToolOutput(in_progress_dir, stage, s)
    /\ encodes' = IF stage = "pass1" THEN encodes ELSE encodes + 1
    /\ arguments' = [arguments EXCEPT !.limit_encodes =
                        IF HasLimit(@) /\ stage # "pass1" /\ LimitValue(@) > 0
                        THEN Limit(LimitValue(@) - 1) ELSE @]
    /\ UNCHANGED <<fileIdx, pc, exception, outcome, limit0, probed, sideVars, completed_dir,
                   temp_dir_exists, raw_timestamps, completed0,
                   scenes, detection, stage, batch, concat, toolRuns, log_sizes, limitFile0>>

RunSucceeds(s) ==
    /\ pc = "running"
    /\ s \in Running
    /\ arguments.dump_commands # "only"
    /\ cli' = [cli EXCEPT ![stage][s] = run_succeeded(@)]
    /\ in_progress_dir' = ToolOutput(in_progress_dir, stage, s)
    /\ encodes' = IF stage = "pass1" THEN encodes ELSE encodes + 1
    /\ UNCHANGED <<arguments, fileIdx, pc, exception, outcome, limit0, probed, sideVars, completed_dir,
                   temp_dir_exists, raw_timestamps, completed0,
                   scenes, detection, stage, batch, concat, toolRuns, log_sizes, limitFile0>>

RunFails(s) ==
    /\ pc = "running"
    /\ s \in Running
    /\ arguments.dump_commands # "only"
    /\ cli' = [cli EXCEPT ![stage][s] = run_failed(@)]
    /\ UNCHANGED <<runVars, probed, sideVars, diskVars, scenes, detection, stage, batch, concat, toolRuns,
                   log_sizes, limitFile0>>

\* AbstractCommandLine.run with dump mode "only": ffmpeg is not executed and
\* the command line pretends to have finished.
RunDumpOnly(s) ==
    /\ pc = "running"
    /\ s \in Running
    /\ arguments.dump_commands = "only"
    /\ cli' = [cli EXCEPT ![stage][s] = run_succeeded(@)]
    /\ encodes' = IF stage = "pass1" THEN encodes ELSE encodes + 1
    /\ UNCHANGED <<arguments, fileIdx, pc, exception, outcome, limit0, probed, sideVars, diskVars,
                   scenes, detection, stage, batch, concat, toolRuns, log_sizes, limitFile0>>

\* ---------------------------------------------------------------- joining
\* the count taken over every command line of the batch, finished or not
successful_encodes_all == Len(batch)

\* len(tuple(finished_command_lines)) of the batch
successful_encodes == Cardinality({s \in Range(batch) : cli[stage][s].finished})

\* arguments.limit_encodes -= successful_encodes, when a limit is set
Subtract(l, n) == IF HasLimit(l) THEN Limit(LimitValue(l) - n) ELSE l

\* _transcode_single_pass after tuple() drove the map.
JoinSinglePass ==
    /\ pc = "running"
    /\ stage = "single"
    /\ BatchJoined
    /\ arguments' = [arguments EXCEPT !.limit_encodes = Subtract(@, successful_encodes)]
    /\ pc' = "decide"
    /\ UNCHANGED <<fileIdx, exception, outcome, limit0, probed, sideVars, encodes, diskVars, jobVars>>

\* _transcode_two_pass_1 after tuple() drove the map: the count is logged.
JoinTwoPass1 ==
    /\ pc = "running"
    /\ stage = "pass1"
    /\ BatchJoined
    /\ pc' = "pass2"
    /\ UNCHANGED <<arguments, fileIdx, exception, outcome, limit0, probed, sideVars, encodes, diskVars, jobVars>>

\* _transcode_two_pass_2 after tuple() drove the map.
JoinTwoPass2 ==
    /\ pc = "running"
    /\ stage = "pass2"
    /\ BatchJoined
    /\ arguments' = [arguments EXCEPT !.limit_encodes = Subtract(@, successful_encodes)]
    /\ pc' = "decide"
    /\ UNCHANGED <<fileIdx, exception, outcome, limit0, probed, sideVars, encodes, diskVars, jobVars>>

\* --------------------------------------------------------------- finalize
\* transcode_input_file: not all scenes are in completed_dir, nothing is built
\* and nothing is deleted.
SkipConcat ==
    /\ pc = "decide"
    /\ all_scenes_completed(completed_dir, scenes) = "False"
    /\ pc' = "main"
    /\ outcome' = [outcome EXCEPT ![fileIdx] = "not_completed"]
    /\ UNCHANGED <<arguments, fileIdx, exception, limit0, probed, sideVars, encodes, diskVars, jobVars>>

\* transcode_input_file: all_scenes_completed raises on a stray file name.
AllScenesCompletedRaises ==
    /\ pc = "decide"
    /\ all_scenes_completed(completed_dir, scenes) = "TypeError"
    /\ Raise("TypeError")
    /\ UNCHANGED <<arguments, fileIdx, outcome, limit0, probed, sideVars, encodes, diskVars, jobVars>>

\* transcode_input_file without the all_scenes_completed test.
ConcatStartUnchecked ==
    /\ pc = "decide"
    /\ all_scenes_completed(completed_dir, scenes) # "TypeError"
    /\ concat' = "Running"
    /\ pc' = "concat"
    /\ UNCHANGED <<arguments, fileIdx, exception, outcome, limit0, probed, sideVars, encodes, diskVars,
                   scenes, detection, cli, stage, batch, toolRuns, log_sizes, limitFile0>>

\* transcode_input_file: ConcatFilterCommandLine(arguments, input_file).run()
\* up to the start of ffmpeg.
ConcatStart ==
    /\ pc = "decide"
    /\ all_scenes_completed(completed_dir, scenes) = "True"
    /\ concat' = "Running"
    /\ pc' = "concat"
    /\ UNCHANGED <<arguments, fileIdx, exception, outcome, limit0, probed, sideVars, encodes, diskVars,
                   scenes, detection, cli, stage, batch, toolRuns, log_sizes, limitFile0>>

\* ConcatFilterCommandLine.run returns: ffmpeg exited with 0, or not, or was
\* not executed (dump mode "only").  The result is not looked at.
ConcatEnd ==
    /\ pc = "concat"
    /\ \E ok \in BOOLEAN :
          /\ arguments.dump_commands = "only" => ok
          /\ concat' = IF ok THEN "Succeeded" ELSE "Failed"
    /\ pc' = "cleanup"
    /\ UNCHANGED <<arguments, fileIdx, exception, outcome, limit0, probed, sideVars, encodes, diskVars,
                   scenes, detection, cli, stage, batch, toolRuns, log_sizes, limitFile0>>

\* _cleanup with keep_temp: nothing is removed.
CleanupKeep ==
    /\ pc = "cleanup"
    /\ arguments.keep_temp
    /\ pc' = "main"
    /\ outcome' = [outcome EXCEPT ![fileIdx] = "concatenated"]
    /\ UNCHANGED <<arguments, fileIdx, exception, limit0, probed, sideVars, encodes, diskVars, jobVars>>

\* _cleanup without keep_temp: input_file.temp_dir.unlink() on a directory
\* raises (IsADirectoryError / PermissionError, both OSError); the tree stays.
CleanupUnlink ==
    /\ pc = "cleanup"
    /\ ~arguments.keep_temp
    /\ outcome' = [outcome EXCEPT ![fileIdx] = "concatenated"]
    /\ Raise("OSError")
    /\ UNCHANGED <<arguments, fileIdx, limit0, probed, sideVars, encodes, diskVars, jobVars>>

\* _cleanup without keep_temp when temp_dir is a symbolic link to a directory
\* (exists() and is_dir() follow the link, so the preparation accepted it):
\* unlink() removes the link and the temporary directory path is gone.
CleanupUnlinkSymlink ==
    /\ pc = "cleanup"
    /\ ~arguments.keep_temp
    /\ temp_dir_exists' = FALSE
    /\ outcome' = [outcome EXCEPT ![fileIdx] = "concatenated"]
    /\ pc' = "main"
    /\ UNCHANGED <<arguments, fileIdx, exception, limit0, probed, sideVars, encodes,
                   completed_dir, in_progress_dir, raw_timestamps, completed0, jobVars>>

\* ------------------------------------------------------------------- Next
Next ==
    \/ ReadInputFiles
    \/ ReadInputFilesRaises
    \/ MainLimitHit
    \/ MainEnd
    \/ MainNextFile
    \/ PrepareOk
    \/ PrepareFailed
    \/ DetectRun
    \/ GenerateSceneCuts
    \/ GenerateSceneCutsNoFile
    \/ TranscodeSinglePass
    \/ TranscodeTwoPass1
    \/ TranscodeTwoPass2
    \/ TranscodeTwoPass2NoLog
    \/ \E s \in 0..(MaxScenes - 1) : RunStart(s)
    \/ \E s \in 0..(MaxScenes - 1) : RunSucceeds(s)
    \/ \E s \in 0..(MaxScenes - 1) : RunFails(s)
    \/ \E s \in 0..(MaxScenes - 1) : RunDumpOnly(s)
    \/ JoinSinglePass
    \/ JoinTwoPass1
    \/ JoinTwoPass2
    \/ SkipConcat
    \/ AllScenesCompletedRaises
    \/ ConcatStart
    \/ ConcatEnd
    \/ CleanupKeep
    \/ CleanupUnlink
    \/ CleanupUnlinkSymlink

Spec == Init /\ [][Next]_vars

TypeOK ==
    /\ pc \in {"read", "main", "prepare", "detect", "parse", "transcode", "running", "pass2", "decide",
               "concat", "cleanup", "done", "crashed"}
    /\ fileIdx \in 0..NumFiles
    /\ probed \subseteq Files
    /\ scenes \in 0..MaxScenes
    /\ stage \in Stages \cup {"none"}
    /\ \A st \in Stages : \A s \in DOMAIN cli[st] : cli[st][s].state \in JobStates

\* ================================================================ claims
\* The completion artifact of the command line of stage st for scene s was in
\* completed_dir when the pipeline of the current file started.
ArtifactAtStart(st, s) ==
    IF st = "pass1" THEN s \in completed0.logs
    ELSE output_scene_file_name(s) \in completed0.scenes

\* The command lines of stage st whose run() was called.
Ran(st) == {s \in DOMAIN cli[st] : cli[st][s].state # "Pending"}
Ended(st, state) == {s \in DOMAIN cli[st] : cli[st][s].state = state}
AnyEnded(state) == \E st \in Stages : Ended(st, state) # {}
RequiredNames(n) == {output_scene_file_name(k) : k \in 0..(n - 1)}
\* The scenes whose artifact was not in completed_dir at the start.
PendingScenes == {s \in 0..(scenes - 1) : output_scene_file_name(s) \notin completed0.scenes}

\* C1: when the pipeline of a file runs without force-overwrite on a completed
\* area that holds exactly scene_0 .. scene_{n-1}, no encode command line
\* executes the external tool, and once the file is through the finalize job
\* has run.
C1_CompleteLedgerRunsNoEncoder ==
    (/\ ~arguments.force_overwrite
     /\ scenes > 0
     /\ completed0.scenes = RequiredNames(scenes))
    => /\ toolRuns = {}
       /\ pc \in {"main", "done"} => concat # "None"

\* C2: without force-overwrite a command line whose completion artifact was
\* in the completed area at the start is not handed to the executor and stays
\* Pending; with force-overwrite (and no limit to truncate the list) it is
\* handed to the executor.
C2_LedgerFinishedJobIsFiltered ==
    \A st \in Stages : \A s \in DOMAIN cli[st] :
        ArtifactAtStart(st, s) =>
            /\ ~arguments.force_overwrite =>
                  /\ cli[st][s].state = "Pending"
                  /\ stage = st => s \notin Range(batch)
            /\ (arguments.force_overwrite /\ stage = st /\ ~HasLimit(arguments.limit_encodes))
                  => s \in Range(batch)

\* C3: after the run of a single pass or second pass command line, finished
\* is true iff the external tool was executed and returned success and
\* scene_<N>.mkv is no longer in the in-progress area but in the completed area.
C3_FinishedIffSuccessAndMoved ==
    \A st \in {"single", "pass2"} : \A s \in DOMAIN cli[st] :
        Terminal(cli[st][s]) =>
            (cli[st][s].finished <=>
                /\ cli[st][s].state = "Succeeded"
                /\ <<st, s>> \in toolRuns
                /\ output_scene_file_name(s) \notin in_progress_dir.scenes
                /\ output_scene_file_name(s) \in completed_dir.scenes)

\* C4: for a file with n scenes all_scenes_completed is true iff the scene
\* files of the completed area are exactly scene_0 .. scene_{n-1}; when the
\* files are scene artifacts and a number is missing or a number >= n is
\* there, it is false.
C4_AllScenesCompletedIffExactRange ==
    scenes > 0 =>
        LET r == all_scenes_completed(completed_dir, scenes)
        IN  /\ (r = "True") <=> (completed_dir.scenes = RequiredNames(scenes))
            /\ (/\ completed_dir.scenes \subseteq SceneNames
                /\ completed_dir.scenes # RequiredNames(scenes)) => r = "False"

\* C4 witness: the finalize decision of a file whose required scenes are all
\* there together with a scene of a number >= n, and the answer is false.
C4_Witness ==
    /\ pc = "decide"
    /\ RequiredNames(scenes) \subseteq completed_dir.scenes
    /\ output_scene_file_name(scenes) \in completed_dir.scenes
    /\ completed_dir.scenes \subseteq SceneNames
    /\ all_scenes_completed(completed_dir, scenes) = "False"

\* C5: the finalize decision is taken after the batches have joined; the
\* concatenation command line runs iff all_scenes_completed holds then, and
\* when it does not hold the file gets neither a concatenation nor a removal
\* of its temporary directory.
C5_ConcatIffAllScenesCompleted ==
    [][ /\ pc = "decide" =>
              /\ (pc' = "concat" /\ concat' = "Running")
                    <=> (all_scenes_completed(completed_dir, scenes) = "True")
              /\ all_scenes_completed(completed_dir, scenes) # "True"
                    => (concat' = "None" /\ temp_dir_exists')
        /\ (concat = "None" /\ concat' # "None") => (pc = "decide" /\ BatchJoined)
        /\ (fileIdx' > 0 /\ outcome'[fileIdx'] = "not_completed")
              => (concat' = "None" /\ temp_dir_exists')
      ]_vars

\* C5 witness: a file that had a scene encoded successfully, was found
\* incomplete at the decision and was left without concatenation, its
\* temporary directory in place.
C5_Witness ==
    /\ pc = "main"
    /\ fileIdx > 0
    /\ outcome[fileIdx] = "not_completed"
    /\ AnyEnded("Succeeded")
    /\ concat = "None"
    /\ temp_dir_exists

\* C6 as claimed: if any encode command line of the file ended Failed, the
\* concatenation is not run and the temporary directory is not removed,
\* whatever the completed area held before.
C6_FailedSceneBlocksConcat ==
    AnyEnded("Failed") => (concat = "None" /\ temp_dir_exists)

\* C6 amended: if an encode command line ended Failed for a scene whose
\* scene_<N>.mkv was not in the completed area when the run started, the
\* concatenation is not run and the temporary directory is not removed.
C6_FailedMissingSceneBlocksConcat ==
    (\E st \in Stages : \E s \in Ended(st, "Failed") :
        output_scene_file_name(s) \notin completed0.scenes)
    => (concat = "None" /\ temp_dir_exists)

\* C6 witness: the file is through, a scene that was not in the completed
\* area failed, and nothing was concatenated.
C6_Witness ==
    /\ pc = "main"
    /\ fileIdx > 0
    /\ outcome[fileIdx] = "not_completed"
    /\ \E st \in Stages : \E s \in Ended(st, "Failed") :
          output_scene_file_name(s) \notin completed0.scenes
    /\ concat = "None"

\* C7: a non-zero exit of the external tool leaves that command line
\* unfinished and changes nothing else: no exception, the siblings of the
\* batch are untouched and every one of them is terminal when the batch
\* joins without an exception; afterwards the driver takes the next input file.
C7_FailureIsLocal ==
    [][ /\ \A s \in 0..(MaxScenes - 1) :
              (/\ stage \in Stages
               /\ s \in DOMAIN cli[stage]
               /\ cli[stage][s].state = "Running"
               /\ s \in DOMAIN cli'[stage]
               /\ cli'[stage][s].state = "Failed")
              => /\ ~cli'[stage][s].finished
                 /\ pc' = pc
                 /\ exception' = "None"
                 /\ fileIdx' = fileIdx
                 /\ batch' = batch
                 /\ \A t \in DOMAIN cli[stage] \ {s} : cli'[stage][t] = cli[stage][t]
        /\ (pc = "running" /\ pc' # "running")
              => (pc' # "crashed" /\ \A s \in Range(batch) : Terminal(cli[stage][s]))
        /\ (/\ pc = "main"
            /\ AnyEnded("Failed")
            /\ fileIdx < NumFiles
            /\ arguments.limit_encodes # Limit(0))
              => (pc' = "prepare" /\ fileIdx' = fileIdx + 1)
      ]_vars

\* C7 witness: the first file is through without an exception, one command
\* line of its batch failed and a sibling of the same batch succeeded, and
\* the driver is about to take the next file.
C7_Witness ==
    /\ pc = "main"
    /\ fileIdx = 1
    /\ exception = "None"
    /\ arguments.limit_encodes # Limit(0)
    /\ \E s \in Range(batch) : \E t \in Range(batch) :
          /\ cli[stage][s].state = "Failed"
          /\ cli[stage][t].state = "Succeeded"

SucceededInBatch == Cardinality({s \in Range(batch) : cli[stage][s].state = "Succeeded"})

\* C9 as claimed: after every batch (single pass, first pass, second pass) the
\* budget is decremented by exactly the number of command lines that became
\* Succeeded in the batch.
C9_EveryBatchDecrements ==
    [][ (pc = "running" /\ pc' # "running" /\ HasLimit(arguments.limit_encodes))
          => arguments'.limit_encodes
                = Limit(LimitValue(arguments.limit_encodes) - SucceededInBatch)
      ]_vars

\* C9 amended: after the single pass batch and after the second pass batch the
\* budget is decremented by exactly the number of command lines that became
\* Succeeded in the batch (failed ones do not reduce it); the first pass batch
\* leaves the budget as it is, and nothing else changes it.
C9_EncodeBatchesDecrement ==
    [][ /\ (pc = "running" /\ pc' # "running" /\ HasLimit(arguments.limit_encodes))
              => arguments'.limit_encodes
                    = IF stage = "pass1" THEN arguments.limit_encodes
                      ELSE Limit(LimitValue(arguments.limit_encodes) - SucceededInBatch)
        /\ ~(pc = "running" /\ pc' # "running")
              => arguments'.limit_encodes = arguments.limit_encodes
        /\ ~HasLimit(arguments.limit_encodes) => ~HasLimit(arguments'.limit_encodes)
      ]_vars

\* C9 witness: a second pass batch with a succeeded and a failed command line
\* has joined, and the budget is one less than when the file was taken.
C9_Witness ==
    /\ pc = "decide"
    /\ stage = "pass2"
    /\ \E s \in Range(batch) : cli[stage][s].state = "Failed"
    /\ SucceededInBatch = 1
    /\ HasLimit(limitFile0)
    /\ arguments.limit_encodes = Limit(LimitValue(limitFile0) - 1)

\* C10 as claimed: with a budget configured, the number of encode command
\* lines of all stages that ended Succeeded in the run never exceeds the
\* configured budget.  (The first passes counted are those of the current
\* file.)
C10_AllStagesWithinBudget ==
    HasLimit(limit0) =>
        encodes + Cardinality(Ended("pass1", "Succeeded")) <= LimitValue(limit0)

\* C10 amended: with a budget configured, the number of single pass and second
\* pass command lines that ended Succeeded, over all input files of the run,
\* never exceeds the configured budget; first passes are not counted.
C10_EncodesWithinBudget ==
    HasLimit(limit0) => encodes <= LimitValue(limit0)

\* C10 witness: the budget of 2 has been used up over two input files, the
\* second file having contributed a success.
C10_Witness ==
    /\ limit0 = Limit(MaxLimit)
    /\ fileIdx = NumFiles
    /\ encodes = MaxLimit
    /\ Ended("single", "Succeeded") \cup Ended("pass2", "Succeeded") # {}
    /\ Cardinality(Ended("single", "Succeeded") \cup Ended("pass2", "Succeeded")) < MaxLimit

\* ---------------------------------------------------------------- C11
\* The input files the loop of main has not taken yet.
LaterFiles == (fileIdx + 1)..NumFiles

\* C11 as claimed: if the encode budget is exactly zero when the driver is
\* about to take an input file, that file and every later one is left
\* untouched: not probed (no ffprobe run), and no directory preparation,
\* detection, encode or finalize job for it.
C11_BudgetZeroNothingProbed ==
    (pc \in {"main", "done"} /\ arguments.limit_encodes = Limit(0))
    => \A f \in LaterFiles : outcome[f] = "untouched" /\ f \notin probed

\* C11 amended: if the encode budget is exactly zero when the driver is about
\* to take an input file, the loop ends there and nothing runs afterwards: no
\* directory preparation, detection run, encode job or finalize job is
\* performed for that file or a later one.  (Every input file was probed by
\* read_input_files before the loop started.)
C11_BudgetZeroStopsTheLoop ==
    [][ /\ (pc = "main" /\ fileIdx < NumFiles /\ arguments.limit_encodes = Limit(0))
              => /\ pc' = "done"
                 /\ UNCHANGED <<arguments, fileIdx, exception, outcome, diskVars, jobVars>>
        /\ pc # "done"
        /\ \A f \in (fileIdx' + 1)..NumFiles : outcome'[f] = "untouched"
      ]_vars

\* C11 witness: the first file used the budget up, the loop ended before the
\* second file, which was probed at the start and is otherwise untouched.
C11_Witness ==
    /\ pc = "done"
    /\ fileIdx = 1
    /\ limit0 # Limit(0)
    /\ arguments.limit_encodes = Limit(0)
    /\ outcome[2] = "untouched"
    /\ 2 \in probed

\* ---------------------------------------------------------------- C12
\* C12 as claimed: in two pass mode the second pass of a scene is created and
\* run only if the first pass of that scene is Succeeded; a scene whose first
\* pass failed or was cut off by the limit gets no second pass run.
C12_SecondPassOnlyAfterFirst ==
    \A s \in Ran("pass2") : cli["pass1"][s].state = "Succeeded"

\* C12 amended: unless the dump mode is "only", the second pass of a scene is
\* created (and so run) only if the first pass of that scene ended Succeeded
\* in this invocation; a scene whose first pass failed never gets a second
\* pass.  In dump mode "only" a second pass is created for every scene, also
\* for one whose first pass was cut off by the limit.
C12_SecondPassOnlyAfterFinishedFirst ==
    /\ arguments.dump_commands # "only"
          => \A s \in DOMAIN cli["pass2"] :
                cli["pass1"][s].state = "Succeeded" /\ cli["pass1"][s].finished
    /\ \A s \in DOMAIN cli["pass2"] : cli["pass1"][s].state # "Failed"
    /\ (arguments.dump_commands = "only" /\ stage = "pass2")
          => DOMAIN cli["pass2"] = 0..(scenes - 1)

\* C12 witness: the first pass of one scene failed and that scene has no
\* second pass, the first pass of another scene succeeded and its second pass
\* has run.
C12_Witness ==
    /\ arguments.dump_commands # "only"
    /\ \E s \in Ended("pass1", "Failed") : s \notin DOMAIN cli["pass2"]
    /\ \E t \in Ended("pass1", "Succeeded") : t \in Ended("pass2", "Succeeded")

\* ---------------------------------------------------------------- C13
\* C13: in two pass mode without force-overwrite, a scene whose first pass
\* log was in the completed area when the pipeline started has its first pass
\* skipped (ffmpeg is not executed for it) and counts as finished: once the
\* second passes are created, the scene has one.
C13_LedgerFirstPassSkipped ==
    (~arguments.force_overwrite /\ ~arguments.enable_single_pass_encode)
    => \A s \in DOMAIN cli["pass1"] :
          s \in completed0.logs
          => /\ <<"pass1", s>> \notin toolRuns
             /\ cli["pass1"][s].state = "Pending"
             /\ stage = "pass2" => s \in DOMAIN cli["pass2"]

\* ---------------------------------------------------------------- C14
\* C14: with force-overwrite, a single pass or second pass command line that
\* is run again for a scene whose scene_<N>.mkv was in the completed area and
\* succeeds leaves exactly one scene_<N>.mkv, the new one, in the completed
\* area: the file ffmpeg wrote is no longer in the in-progress area.
C14_ForcedRerunReplacesArtifact ==
    arguments.force_overwrite
    => \A st \in {"single", "pass2"} : \A s \in Ended(st, "Succeeded") :
          (output_scene_file_name(s) \in completed0.scenes /\ <<st, s>> \in toolRuns)
          => /\ output_scene_file_name(s) \in completed_dir.scenes
             /\ output_scene_file_name(s) \notin in_progress_dir.scenes

\* ---------------------------------------------------------------- C15
\* The command lines of stage st that run() has appended to the dump file of
\* the stage: run() writes the command line before it executes ffmpeg, unless
\* the dump mode is "no".
Dumped(st) == IF arguments.dump_commands # "no" THEN Ran(st) ELSE {}

\* C15: in dump mode "only" (no limit configured), when the batches of a file
\* have joined, the command line of every scene has been written to the dump
\* file for each stage (single pass, or first and second pass), every one of
\* them counts as Succeeded, and ffmpeg was never executed for an encode.
C15_DumpOnlyRecordsEveryStage ==
    (/\ arguments.dump_commands = "only"
     /\ ~HasLimit(limitFile0)
     /\ pc = "decide")
    => /\ toolRuns = {}
       /\ \A st \in (IF arguments.enable_single_pass_encode
                     THEN {"single"} ELSE {"pass1", "pass2"}) :
             /\ Dumped(st) = 0..(scenes - 1)
             /\ Ended(st, "Succeeded") = 0..(scenes - 1)

\* ------------------------------------------------------------ C16, C17
\* The temporary directory of the current file was removed by _cleanup.
TempDirRemoved ==
    /\ fileIdx > 0
    /\ outcome[fileIdx] = "concatenated"
    /\ ~temp_dir_exists

\* C16: in dump mode "only" a pipeline run never puts a scene file or a first
\* pass log into the completed area and never removes the temporary directory
\* of the file, whatever the completed area held at the start.
C16_DumpOnlyKeepsTempDir ==
    arguments.dump_commands = "only"
    => (completed_dir = completed0 /\ ~TempDirRemoved)

\* C17: the temporary directory of a file is removed only after the
\* concatenation of that file has succeeded and only when keep_temp is not
\* set; a concatenation whose ffmpeg run fails leaves the directory in place.
C17_TempDirRemovedOnlyAfterConcatSuccess ==
    /\ TempDirRemoved => (concat = "Succeeded" /\ ~arguments.keep_temp)
    /\ (concat = "Failed" /\ pc \in {"main", "done", "crashed"}) => temp_dir_exists

\* ---------------------------------------------------------------- C18
\* C18: if the directory preparation of an input file reports failure, no
\* detection, encode or concatenation command line is run for that file, and
\* the driver goes on with the next input file.
C18_PrepareFailureSkipsFile ==
    [][ /\ (fileIdx' > 0 /\ outcome'[fileIdx'] = "prepare_failed")
              => /\ pc' \in {"main", "prepare", "done"}
                 /\ detection' = "None"
                 /\ scenes' = 0
                 /\ cli' = NoCommandLines
                 /\ toolRuns' = {}
                 /\ concat' = "None"
        /\ (/\ pc = "main"
            /\ fileIdx > 0
            /\ outcome[fileIdx] = "prepare_failed"
            /\ fileIdx < NumFiles
            /\ arguments.limit_encodes # Limit(0))
              => (pc' = "prepare" /\ fileIdx' = fileIdx + 1)
        /\ (pc = "prepare" /\ pc' = "main") => outcome'[fileIdx] = "prepare_failed"
      ]_vars

\* C18 witness: the directory preparation of the first file failed, nothing
\* was run for it, and the driver has taken the second file.
C18_Witness ==
    /\ fileIdx = 2
    /\ outcome[1] = "prepare_failed"
    /\ outcome[2] = "started"
    /\ pc = "prepare"

\* ============================================ directory preparation alone
\* InputFile.handle_temp_directory_creation step by step, on the paths of one
\* input file.  prep.output_dir and prep.temp_dir say what the path is on disk
\* (PathKinds), prep.subdirs whether completed_scenes/ and in_progress_scenes/
\* exist, prep.same whether temp_dir == output_dir.

\* The state of the pipeline variables while a part is looked at on its own.
IdleMain(args) ==
    /\ arguments = args
    /\ limit0 = args.limit_encodes
    /\ limitFile0 = args.limit_encodes
    /\ fileIdx = 0
    /\ pc = "read"
    /\ exception = "None"
    /\ encodes = 0
    /\ probed = {}
    /\ outcome = [f \in Files |-> "untouched"]
    /\ scenes = 0
    /\ completed_dir = EmptyDir
    /\ in_progress_dir = EmptyDir
    /\ temp_dir_exists = FALSE
    /\ raw_timestamps = FALSE
    /\ detection = "None"
    /\ cli = NoCommandLines
    /\ stage = "none"
    /\ batch = <<>>
    /\ concat = "None"
    /\ toolRuns = {}
    /\ log_sizes = <<>>
    /\ completed0 = EmptyDir

mainVars == <<runVars, diskVars, jobVars, probed>>

\* The file system call of the preparation of one path that raises OSError:
\* none, the unlink or the mkdir of _replace_path, or the mkdir of
\* _create_directory.
FsErrors == {"none", "unlink", "mkdir", "create"}

\* _replace_file_with_directory with force_overwrite ignored.
_replace_file_with_directory_always(force_overwrite, err) ==
    CASE err = "unlink" -> [ok |-> FALSE, kind |-> "file"]
      [] err = "mkdir"  -> [ok |-> FALSE, kind |-> "absent"]
      [] OTHER          -> [ok |-> TRUE, kind |-> "dir"]

\* InputFile._replace_file_with_directory and _replace_path on a plain file:
\* the result and what the path of the file is afterwards.
_replace_file_with_directory(force_overwrite, err) ==
    IF force_overwrite
    THEN CASE err = "unlink" -> [ok |-> FALSE, kind |-> "file"]
           [] err = "mkdir"  -> [ok |-> FALSE, kind |-> "absent"]
           [] OTHER          -> [ok |-> TRUE, kind |-> "dir"]
    ELSE [ok |-> FALSE, kind |-> "file"]

\* InputFile._create_directory on an absent path below a directory.
_create_directory(err) ==
    IF err = "create" THEN [ok |-> FALSE, kind |-> "absent"]
    ELSE [ok |-> TRUE, kind |-> "dir"]

\* InputFile._handle_output_directory, and _handle_temp_directory after its
\* shortcut: the result and what the path is afterwards.
_handle_path(kind, force_overwrite, err) ==
    CASE kind = "dir" -> [ok |-> TRUE, kind |-> "dir"]
      [] kind = "absent" -> _create_directory(err)
      [] kind = "absent_under_file" ->
            LET parent == _replace_file_with_directory(force_overwrite, err)
            IN  IF ~parent.ok
                THEN [ok |-> FALSE,
                      kind |-> IF parent.kind = "file" THEN "absent_under_file" ELSE "absent"]
                ELSE _create_directory(err)
      [] kind = "file" -> _replace_file_with_directory(force_overwrite, err)

DirInit ==
    /\ \E fo \in BOOLEAN :
          IdleMain([force_overwrite |-> fo, dump_commands |-> "no",
                    enable_single_pass_encode |-> FALSE, keep_temp |-> FALSE,
                    max_concurrent_encodes |-> MaxWorkers, limit_encodes |-> NoLimit])
    /\ parser = NoParser
    /\ merger = NoMerger
    /\ collector = NoCollector
    /\ listing = NoListing
    /\ \E sm \in BOOLEAN, ok \in PathKinds, tk \in PathKinds, sd \in BOOLEAN :
          /\ sm => tk = ok
          /\ sd => tk = "dir"
          /\ prep = [pc |-> "output", same |-> sm, output_dir |-> ok, temp_dir |-> tk,
                     subdirs |-> sd, output_dir0 |-> ok, temp_dir0 |-> tk, result |-> "None"]

\* handle_temp_directory_creation: self._handle_output_directory()
HandleOutputDirectory ==
    /\ prep.pc = "output"
    /\ \E err \in FsErrors :
          LET r == _handle_path(prep.output_dir, arguments.force_overwrite, err)
          IN  prep' = [prep EXCEPT !.output_dir = r.kind,
                                   !.temp_dir = IF prep.same THEN r.kind ELSE @,
                                   !.pc = IF r.ok THEN "temp" ELSE "done",
                                   !.result = IF r.ok THEN "None" ELSE "False"]
    /\ UNCHANGED <<mainVars, parser, merger, collector, listing>>

\* handle_temp_directory_creation: and self._handle_temp_directory()
HandleTempDirectory ==
    /\ prep.pc = "temp"
    /\ \E err \in FsErrors :
          LET r == IF prep.same THEN [ok |-> TRUE, kind |-> prep.temp_dir]
                   ELSE _handle_path(prep.temp_dir, arguments.force_overwrite, err)
          IN  prep' = [prep EXCEPT !.temp_dir = r.kind,
                                   !.pc = IF r.ok THEN "subdirs" ELSE "done",
                                   !.result = IF r.ok THEN "None" ELSE "False"]
    /\ UNCHANGED <<mainVars, parser, merger, collector, listing>>

\* handle_temp_directory_creation: and self._handle_temp_subdirectories()
HandleTempSubdirectories ==
    /\ prep.pc = "subdirs"
    /\ \E oserror \in BOOLEAN :
          prep' = [prep EXCEPT !.subdirs = IF oserror THEN @ ELSE TRUE,
                               !.pc = "done",
                               !.result = IF oserror THEN "False" ELSE "True"]
    /\ UNCHANGED <<mainVars, parser, merger, collector, listing>>

DirNext ==
    \/ HandleOutputDirectory
    \/ HandleTempDirectory
    \/ HandleTempSubdirectories

DirSpec == DirInit /\ [][DirNext]_vars

\* ---------------------------------------------------------------- C19
BlockedByFile(kind) == kind \in {"file", "absent_under_file"}

\* C19: when the output or temporary directory path, or its lowest existing
\* ancestor, is a plain file, the preparation replaces the file with a
\* directory only if force_overwrite is set; without force_overwrite the
\* preparation returns False and the file stays as it is.
C19_FileReplacedOnlyIfForced ==
    [][ /\ (BlockedByFile(prep.output_dir) /\ prep'.output_dir # prep.output_dir)
              => arguments.force_overwrite
        /\ (BlockedByFile(prep.temp_dir) /\ prep'.temp_dir # prep.temp_dir)
              => arguments.force_overwrite
        /\ (/\ ~arguments.force_overwrite
            /\ \/ prep.pc = "output" /\ BlockedByFile(prep.output_dir)
               \/ prep.pc = "temp" /\ BlockedByFile(prep.temp_dir))
              => /\ prep'.pc = "done"
                 /\ prep'.result = "False"
                 /\ prep'.output_dir = prep.output_dir
                 /\ prep'.temp_dir = prep.temp_dir
        /\ prep'.result = "True"
              => (prep'.output_dir = "dir" /\ prep'.temp_dir = "dir" /\ prep'.subdirs)
      ]_vars

\* C19 witness: without force_overwrite the output directory was fine, the
\* temporary directory path was a plain file; the preparation has returned
\* False and the file is still there.
C19_Witness ==
    /\ ~arguments.force_overwrite
    /\ prep.pc = "done"
    /\ prep.output_dir0 = "dir"
    /\ prep.temp_dir0 = "file"
    /\ prep.result = "False"
    /\ prep.temp_dir = "file"

\* ===================================================== the boundary parser
\* A line of raw_timestamps.txt is the record [tag, a, b, c] of its key and
\* its three value texts, each text a sequence of characters:
\*   "frame:1 pts:10 pts_time:2"    is ["frame:", <<"1">>, <<"1","0">>, <<"2">>]
\*   "lavfi.scene_score=0.500000"   is ["lavfi.scene_score=", <<"0">>, <<"5","0",..>>, <<>>]
\* pts_time is written in whole seconds here.
Line(tag, a, b, c) == [tag |-> tag, a |-> a, b |-> b, c |-> c]

\* (0|[1-9][0-9]*) followed by something that is no digit
IsNumber(text) ==
    /\ text # <<>>
    /\ \A i \in 1..Len(text) : text[i] \in Digits
    /\ text = <<"0">> \/ text[1] # "0"

\* timestamp_matcher_re.match(line): <<>> is None, otherwise the groups.
timestamp_matcher_re_match(line) ==
    IF /\ line.tag = "frame:"
       /\ IsNumber(line.a)
       /\ IsNumber(line.b)
       /\ line.c # <<>>
       /\ \A i \in 1..Len(line.c) : line.c[i] \in Digits
    THEN <<[frame |-> line.a, pts |-> line.b, pts_time |-> line.c]>>
    ELSE <<>>

\* score_matcher_re.match(line): (1\.0{6}|[0]\.[0-9]{6}), matched as a prefix.
score_matcher_re_match(line) ==
    IF /\ line.tag = "lavfi.scene_score="
       /\ Len(line.b) >= 6
       /\ \A i \in 1..6 : line.b[i] \in Digits
       /\ \/ line.a = <<"1">> /\ \A i \in 1..6 : line.b[i] = "0"
          \/ line.a = <<"0">>
    THEN <<[scene_score |-> line.a \o SubSeq(line.b, 1, 6)]>>
    ELSE <<>>

\* Optional values: <<>> is None, <<v>> is v.
None == <<>>
Some(v) == <<v>>

\* Scene.__init__
Scene(end_pts, end_pts_time, end_scene_score, timestamp_match_number, previous_scene) ==
    [end_pts |-> end_pts,
     end_pts_time |-> end_pts_time,
     end_scene_score |-> end_scene_score,
     timestamp_match_number |-> timestamp_match_number,
     scene_number |-> IF previous_scene = None THEN 0
                      ELSE previous_scene[1].scene_number + 1,
     begin_pts |-> IF previous_scene = None THEN Some(0)
                   ELSE previous_scene[1].end_pts,
     begin_pts_time |-> IF previous_scene = None THEN Some(0)
                        ELSE previous_scene[1].end_pts_time]

\* Scene.factory: int() and float() of the matched groups; the score is kept
\* in millionths.
Scene_factory(timestamp_match, score_match, previous_scene) ==
    Scene(Some(DecimalValue(timestamp_match.pts)),
          Some(DecimalValue(timestamp_match.pts_time)),
          Some(DecimalValue(score_match.scene_score)),
          Some(DecimalValue(timestamp_match.frame)),
          previous_scene)

\* scenes[0] for scenes[-1]
FirstOrNone(list) == IF list = <<>> THEN None ELSE Some(list[1])

\* scenes[-1] if scenes else None
LastOrNone(list) == IF list = <<>> THEN None ELSE Some(list[Len(list)])

\* the loop of parse_raw_timestamps_from_file over zip(*([raw_timestamps]*2)):
\* lines 2k-1 and 2k form a pair, a line left over at the end is dropped.
RECURSIVE parse_line_pairs(_, _, _)
parse_line_pairs(lines, k, list) ==
    IF 2 * k > Len(lines) THEN list
    ELSE LET timestamp_match == timestamp_matcher_re_match(lines[2 * k - 1])
             score_match == score_matcher_re_match(lines[2 * k])
         IN  parse_line_pairs(lines, k + 1,
                IF timestamp_match # <<>> /\ score_match # <<>>
                THEN Append(list, Scene_factory(timestamp_match[1], score_match[1],
                                                LastOrNone(list)))
                ELSE list)

\* the loop appending a scene whenever the timestamp line matches
RECURSIVE parse_line_pairs_timestamp_only(_, _, _)
parse_line_pairs_timestamp_only(lines, k, list) ==
    IF 2 * k > Len(lines) THEN list
    ELSE LET timestamp_match == timestamp_matcher_re_match(lines[2 * k - 1])
             score_match == score_matcher_re_match(lines[2 * k])
         IN  parse_line_pairs_timestamp_only(lines, k + 1,
                IF timestamp_match # <<>>
                THEN Append(list, Scene_factory(timestamp_match[1],
                        IF score_match # <<>> THEN score_match[1]
                        ELSE [scene_score |-> <<"0">>],
                        LastOrNone(list)))
                ELSE list)

\* parse_raw_timestamps_from_file with the score line not looked at
parse_raw_timestamps_from_file_timestamp_only(lines) ==
    LET list == parse_line_pairs_timestamp_only(lines, 1, <<>>)
    IN  Append(list, Scene(None, None, None, None, LastOrNone(list)))

\* parse_raw_timestamps_from_file
parse_raw_timestamps_from_file(lines) ==
    LET list == parse_line_pairs(lines, 1, <<>>)
    IN  Append(list, Scene(None, None, None, None, LastOrNone(list)))

\* The lines the detector output is made of here: two good timestamp lines, a
\* timestamp line with a leading zero in the frame number, two good score
\* lines, a score line with too few digits, and an empty line.
SampleLines ==
    { Line("frame:", <<"1">>, <<"1", "0">>, <<"1">>),
      Line("frame:", <<"2">>, <<"2", "5">>, <<"0", "3">>),
      Line("frame:", <<"0", "3">>, <<"3", "0">>, <<"3">>),
      Line("lavfi.scene_score=", <<"0">>, <<"5", "0", "0", "0", "0", "0">>, <<>>),
      Line("lavfi.scene_score=", <<"1">>, <<"0", "0", "0", "0", "0", "0">>, <<>>),
      Line("lavfi.scene_score=", <<"0">>, <<"5">>, <<>>),
      Line("", <<>>, <<>>, <<>>) }

RawTimestampFiles == UNION {[1..n -> SampleLines] : n \in 0..MaxLines}

ParserInit ==
    /\ IdleMain([force_overwrite |-> FALSE, dump_commands |-> "no",
                 enable_single_pass_encode |-> FALSE, keep_temp |-> FALSE,
                 max_concurrent_encodes |-> MaxWorkers, limit_encodes |-> NoLimit])
    /\ prep = NoPrep
    /\ merger = NoMerger
    /\ collector = NoCollector
    /\ listing = NoListing
    /\ \E lines \in RawTimestampFiles :
          parser = [pc |-> "parse", raw_timestamps |-> lines, scenes |-> <<>>]

\* generate_scene_cuts: scenes = parse_raw_timestamps_from_file(...)
ParseRawTimestamps ==
    /\ parser.pc = "parse"
    /\ parser' = [parser EXCEPT !.pc = "parsed",
                                !.scenes = parse_raw_timestamps_from_file(parser.raw_timestamps)]
    /\ UNCHANGED <<mainVars, prep, merger, collector, listing>>

ParserNext == ParseRawTimestamps

ParserSpec == ParserInit /\ [][ParserNext]_vars

\* ---------------------------------------------------------------- C20
\* The pairs of lines of which both lines match their pattern.
ValidPairs(lines) ==
    {k \in 1..(Len(lines) \div 2) :
        /\ timestamp_matcher_re_match(lines[2 * k - 1]) # <<>>
        /\ score_matcher_re_match(lines[2 * k]) # <<>>}

\* C20: for every sequence of detector lines the parser returns a list of as
\* many scenes as there are valid pairs, plus one; pairs with a line that does
\* not match are skipped, and the last scene of the list is the end scene
\* (end_pts_time, end_pts and end_scene_score are None), also when no pair is
\* valid.
C20_ParserLengthAndEndScene ==
    parser.pc = "parsed"
    => LET list == parser.scenes
       IN  /\ Len(list) = Cardinality(ValidPairs(parser.raw_timestamps)) + 1
           /\ list[Len(list)].end_pts_time = None
           /\ list[Len(list)].end_pts = None
           /\ list[Len(list)].end_scene_score = None
           /\ \A i \in 1..(Len(list) - 1) : list[i].end_pts_time # None

\* C20 witness: a file of two pairs, the first one with a score line that does
\* not match, the second one valid: two scenes, the last one the end scene.
C20_Witness ==
    /\ parser.pc = "parsed"
    /\ Len(parser.raw_timestamps) = 4
    /\ ValidPairs(parser.raw_timestamps) = {2}
    /\ timestamp_matcher_re_match(parser.raw_timestamps[1]) # <<>>
    /\ Len(parser.scenes) = 2
    /\ parser.scenes[2].end_pts_time = None

\* ========================================================= the scene merger
\* The Scene objects live in a heap, a sequence indexed by the identity of the
\* object; a list of scenes_ is a sequence of identities.  merger.heap0 and
\* merger.passed0 are the heap and the list passed as they were at the call,
\* merger.passed is the list object passed as the call left it, and
\* merger.returned is the list the call returned.

\* Scene.length_seconds
length_seconds(scene) ==
    IF scene.end_pts_time # None
    THEN Some(scene.end_pts_time[1] - scene.begin_pts_time[1])
    ELSE None

\* Scene.is_end_scene
is_end_scene(scene) == scene.end_pts_time = None

\* merge_other that leaves the end of the scene where it was
merge_other_keeps_end(self, next_scene) ==
    [self EXCEPT !.end_scene_score = next_scene.end_scene_score]

\* Scene.merge_other
merge_other(self, next_scene) ==
    [self EXCEPT !.end_pts = next_scene.end_pts,
                 !.end_pts_time = next_scene.end_pts_time,
                 !.end_scene_score = next_scene.end_scene_score]

\* current.length_seconds < float(arguments.min_scene_length), with <= for <
is_short_or_equal(length, min_scene_length) == length <= min_scene_length

\* current.length_seconds < float(arguments.min_scene_length), one second off
is_short_off_by_one(length, min_scene_length) == length < min_scene_length - 1

\* current.length_seconds < float(arguments.min_scene_length)
is_short(length, min_scene_length) == length < min_scene_length

\* the while loop of merge_short_scenes (scenes_ is the list scenes); comparing the length None of an end
\* scene with a float raises TypeError.
RECURSIVE merge_loop(_, _, _, _, _)
merge_loop(min_scene_length, heap, scenes_, current, valid_scenes) ==
    IF scenes_ = <<>>
    THEN [exception |-> "None", heap |-> heap, scenes |-> scenes_,
          valid_scenes |-> valid_scenes]
    ELSE LET next_ == Head(scenes_)
             length == length_seconds(heap[current])
         IN  IF length = None
             THEN [exception |-> "TypeError", heap |-> heap, scenes |-> Tail(scenes_),
                   valid_scenes |-> <<>>]
             ELSE IF is_short(length[1], min_scene_length)
             THEN merge_loop(min_scene_length,
                             [heap EXCEPT ![current] = merge_other(@, heap[next_])],
                             Tail(scenes_), current, valid_scenes)
             ELSE merge_loop(min_scene_length, heap, Tail(scenes_), next_,
                             Append(valid_scenes, next_))

\* the numbering loop left out
fix_scene_numbering_skipped(heap, valid_scenes) == heap

\* the numbering loop counting from one
fix_scene_numbering_from_one(heap, valid_scenes) ==
    [id \in DOMAIN heap |->
        IF \E index \in DOMAIN valid_scenes : valid_scenes[index] = id
        THEN [heap[id] EXCEPT !.scene_number =
                 CHOOSE index \in DOMAIN valid_scenes : valid_scenes[index] = id]
        ELSE heap[id]]

\* for index, scene in enumerate(valid_scenes): scene.scene_number = index
fix_scene_numbering(heap, valid_scenes) ==
    [id \in DOMAIN heap |->
        IF \E index \in DOMAIN valid_scenes : valid_scenes[index] = id
        THEN [heap[id] EXCEPT !.scene_number =
                 (CHOOSE index \in DOMAIN valid_scenes : valid_scenes[index] = id) - 1]
        ELSE heap[id]]

\* merge_short_scenes working on a copy of the list passed
merge_short_scenes_on_copy(min_scene_length, heap, scenes_) ==
    IF scenes_ = <<>>
    THEN [exception |-> "None", heap |-> heap, scenes |-> scenes_, valid_scenes |-> <<>>]
    ELSE LET r == merge_loop(min_scene_length, heap, Tail(scenes_), Head(scenes_),
                             <<Head(scenes_)>>)
         IN  IF r.exception # "None" THEN [r EXCEPT !.scenes = scenes_]
             ELSE [r EXCEPT !.heap = fix_scene_numbering(r.heap, r.valid_scenes),
                            !.scenes = scenes_]

\* merge_short_scenes: the heap and the list passed as the call leaves them,
\* and the list returned.
merge_short_scenes(min_scene_length, heap, scenes_) ==
    IF scenes_ = <<>>
    THEN [exception |-> "None", heap |-> heap, scenes |-> scenes_, valid_scenes |-> <<>>]
    ELSE LET r == merge_loop(min_scene_length, heap, Tail(scenes_), Head(scenes_),
                             <<Head(scenes_)>>)
         IN  IF r.exception # "None" THEN r
             ELSE [r EXCEPT !.heap = fix_scene_numbering(r.heap, r.valid_scenes)]

\* The detector output for scene cuts after the given durations (seconds): a
\* timestamp line and a score line per cut; the pts counts half seconds.
RECURSIVE EndTime(_, _)
EndTime(durations, i) == IF i = 0 THEN 0 ELSE EndTime(durations, i - 1) + durations[i]

DetectorLines(durations) ==
    [l \in 1..(2 * Len(durations)) |->
        IF l % 2 = 1
        THEN LET i == (l + 1) \div 2
             IN  Line("frame:", DecimalString(i), DecimalString(2 * EndTime(durations, i)),
                      DecimalString(EndTime(durations, i)))
        ELSE Line("lavfi.scene_score=", <<"0">>,
                  <<DigitChar((l \div 2) % 10), "0", "0", "0", "0", "0">>, <<>>)]

DurationValues == (1..MaxDuration) \cup {LongDuration}
MinSceneLengths == 1..MaxMinSceneLength
SceneDurations == UNION {[1..n -> DurationValues] : n \in 0..MaxCuts}

\* generate_scene_cuts up to the call of merge_short_scenes: the list passed
\* is the list parse_raw_timestamps_from_file returned.
MergerInit ==
    /\ IdleMain([force_overwrite |-> FALSE, dump_commands |-> "no",
                 enable_single_pass_encode |-> FALSE, keep_temp |-> FALSE,
                 max_concurrent_encodes |-> MaxWorkers, limit_encodes |-> NoLimit])
    /\ prep = NoPrep
    /\ parser = NoParser
    /\ collector = NoCollector
    /\ listing = NoListing
    /\ \E durations \in SceneDurations, min_scene_length \in MinSceneLengths :
          LET parsed == parse_raw_timestamps_from_file(DetectorLines(durations))
              ids == [i \in 1..Len(parsed) |-> i]
          IN  merger = [pc |-> "merge", min_scene_length |-> min_scene_length,
                        exception |-> "None",
                        heap0 |-> parsed, passed0 |-> ids,
                        heap |-> parsed, passed |-> ids, returned |-> <<>>]

\* scenes = merge_short_scenes(arguments, scenes)
MergeShortScenes ==
    /\ merger.pc = "merge"
    /\ LET r == merge_short_scenes(merger.min_scene_length, merger.heap, merger.passed)
       IN  merger' = [merger EXCEPT !.pc = "merged", !.exception = r.exception,
                                    !.heap = r.heap, !.passed = r.scenes,
                                    !.returned = r.valid_scenes]
    /\ UNCHANGED <<mainVars, prep, parser, collector, listing>>

\* merge_short_scenes called on the list it returned, with the same arguments
MergeShortScenesAgain ==
    /\ merger.pc = "merged"
    /\ merger.exception = "None"
    /\ LET r == merge_short_scenes(merger.min_scene_length, merger.heap, merger.returned)
       IN  merger' = [merger EXCEPT !.pc = "merged_again", !.exception = r.exception,
                                    !.heap0 = merger.heap, !.passed0 = merger.returned,
                                    !.heap = r.heap, !.passed = r.scenes,
                                    !.returned = r.valid_scenes]
    /\ UNCHANGED <<mainVars, prep, parser, collector, listing>>

MergerNext == MergeShortScenes \/ MergeShortScenesAgain

MergerSpec == MergerInit /\ [][MergerNext]_vars

\* The scenes of a list, in list order.
Scenes(heap, list) == [i \in DOMAIN list |-> heap[list[i]]]
MergerReturned == merger.pc \in {"merged", "merged_again"} /\ merger.exception = "None"

\* ---------------------------------------------------------------- C21
\* C21: in every list the merger returns each scene begins where the scene
\* before it ends, in seconds and in pts, and the scene numbers are 0..n-1 in
\* list order.
C21_MergedContiguousAndDense ==
    MergerReturned
    => LET list == Scenes(merger.heap, merger.returned)
       IN  /\ \A i \in 2..Len(list) :
                 /\ list[i].begin_pts_time = list[i - 1].end_pts_time
                 /\ list[i].begin_pts = list[i - 1].end_pts
           /\ \A i \in 1..Len(list) : list[i].scene_number = i - 1

\* C21 witness: a call that merged scenes away and returned three or more.
C21_Witness ==
    /\ merger.pc = "merged"
    /\ merger.exception = "None"
    /\ Len(merger.returned) >= 3
    /\ Len(merger.returned) < Len(merger.passed0)
    /\ merger.returned[2] # 2

\* ---------------------------------------------------------------- C22
\* A list that is contiguous, densely numbered and has no scene but an end
\* scene shorter than min_scene_length.
Conforming(heap, list, min_scene_length) ==
    LET l == Scenes(heap, list)
    IN  /\ \A i \in 2..Len(l) :
              /\ l[i].begin_pts_time = l[i - 1].end_pts_time
              /\ l[i].begin_pts = l[i - 1].end_pts
        /\ \A i \in 1..Len(l) : l[i].scene_number = i - 1
        /\ \A i \in 1..Len(l) :
              ~is_end_scene(l[i]) => length_seconds(l[i])[1] >= min_scene_length

\* C22: a call on a conforming list returns the same scenes with the same
\* boundaries, scores and numbers; a call on the list an earlier call
\* returned, with the same min_scene_length, does so in particular.
C22_MergerIdempotent ==
    /\ (merger.pc \in {"merged", "merged_again"}
        /\ Conforming(merger.heap0, merger.passed0, merger.min_scene_length))
       => /\ merger.exception = "None"
          /\ Scenes(merger.heap, merger.returned) = Scenes(merger.heap0, merger.passed0)
    /\ merger.pc = "merged_again"
       => /\ merger.exception = "None"
          /\ Scenes(merger.heap, merger.returned) = Scenes(merger.heap0, merger.passed0)

\* C22 witness: the merger was applied to a list of three or more scenes that
\* it had returned itself, with a min_scene_length that made it merge.
C22_Witness ==
    /\ merger.pc = "merged_again"
    /\ merger.min_scene_length >= 2
    /\ Len(merger.passed0) >= 3
    /\ Len(merger.heap) > Len(merger.passed0)
    /\ \E i \in 1..Len(merger.passed0) :
          LET scene == merger.heap0[merger.passed0[i]]
          IN  ~is_end_scene(scene) /\ length_seconds(scene)[1] = merger.min_scene_length

\* ---------------------------------------------------------------- C23
\* The lengths of the scenes of a list, None for an end scene.
Lengths(heap, list) == [i \in DOMAIN list |-> length_seconds(heap[list[i]])]

\* The greedy merge told on lengths alone: acc is the length of the
\* accumulator, out the lengths emitted so far, and i the next scene.
RECURSIVE GreedyLengths(_, _, _, _, _)
GreedyLengths(lengths, min_scene_length, i, acc, out) ==
    IF i > Len(lengths) THEN Append(out, acc)
    ELSE IF acc # None /\ acc[1] < min_scene_length
         THEN GreedyLengths(lengths, min_scene_length, i + 1,
                            IF lengths[i] = None THEN None
                            ELSE Some(acc[1] + lengths[i][1]), out)
         ELSE GreedyLengths(lengths, min_scene_length, i + 1, lengths[i],
                            Append(out, acc))

\* C23: the merger returns the greedy left to right merge of the list passed:
\* the first scene is the accumulator, each next scene is merged into the
\* accumulator if the accumulator is shorter than min_scene_length before the
\* merge, otherwise the accumulator is emitted and the next scene becomes the
\* accumulator; the last accumulator is emitted in any case.  The first scene
\* returned begins where the first scene passed began.  For min_scene_length 5
\* and the lengths 2, 2, 2, 10 and an end scene, the lengths returned are 6,
\* 10 and an end scene.
C23_MergerIsGreedy ==
    (merger.pc = "merged" /\ merger.passed0 # <<>>)
    => LET lengths == Lengths(merger.heap0, merger.passed0)
           result == Lengths(merger.heap, merger.returned)
       IN  /\ merger.exception = "None"
           /\ result = GreedyLengths(lengths, merger.min_scene_length, 2, lengths[1], <<>>)
           /\ merger.heap[merger.returned[1]].begin_pts_time
                 = merger.heap0[merger.passed0[1]].begin_pts_time
           /\ (merger.min_scene_length = 5
               /\ lengths = <<Some(2), Some(2), Some(2), Some(10), None>>)
              => result = <<Some(6), Some(10), None>>

\* C23 witness: the example of the claim.
C23_Witness ==
    /\ merger.pc = "merged"
    /\ merger.min_scene_length = 5
    /\ Lengths(merger.heap0, merger.passed0) = <<Some(2), Some(2), Some(2), Some(10), None>>
    /\ Lengths(merger.heap, merger.returned) = <<Some(6), Some(10), None>>

\* ---------------------------------------------------------------- C28
\* The lengths of the scenes of a list that are no end scene.
KnownLengths(heap, list) ==
    {length_seconds(heap[list[i]])[1] : i \in {j \in DOMAIN list : ~is_end_scene(heap[list[j]])}}

\* C28: if no scene passed (the end scene aside) is longer than U, no scene
\* returned (the end scene aside) is longer than min_scene_length + U - 1.
C28_OvershootIsBounded ==
    merger.pc = "merged"
    => \A U \in KnownLengths(merger.heap0, merger.passed0) :
          (\A length \in KnownLengths(merger.heap0, merger.passed0) : length <= U)
          => \A length \in KnownLengths(merger.heap, merger.returned) :
                length <= merger.min_scene_length + U - 1

\* C28 witness: a scene one second short of min_scene_length took in a scene
\* of the greatest length passed, and the bound is met exactly.
C28_Witness ==
    /\ merger.pc = "merged"
    /\ merger.min_scene_length >= 2
    /\ LongDuration \in KnownLengths(merger.heap0, merger.passed0)
    /\ merger.min_scene_length + LongDuration - 1
          \in KnownLengths(merger.heap, merger.returned)

\* ---------------------------------------------------------------- C29
\* C29 as stated: after the merger returns, the list passed has the length it
\* had and each of its scenes has the begin, end, score and number it had.
C29_MergerLeavesInputUnchanged ==
    merger.pc = "merged"
    => /\ merger.passed = merger.passed0
       /\ \A i \in DOMAIN merger.passed0 :
             merger.heap[merger.passed0[i]] = merger.heap0[merger.passed0[i]]

\* The identities of a list.
Members(list) == {list[i] : i \in DOMAIN list}

\* C29 amended: after the merger returns, the list passed is empty and the
\* list returned is a separate list of scene objects of the list passed, in
\* their order and renumbered; a scene that is not returned is as it was, and
\* a scene returned begins where it began and has the end and the score of
\* the last scene merged into it.
C29_MergerConsumesInput ==
    (merger.pc = "merged" /\ merger.exception = "None")
    => /\ merger.passed = <<>>
       /\ Len(merger.passed0) > 0 => Len(merger.returned) > 0
       /\ \A i \in DOMAIN merger.returned :
             LET id == merger.returned[i]
                 last == IF i < Len(merger.returned) THEN merger.returned[i + 1] - 1
                         ELSE Len(merger.passed0)
             IN  /\ id \in Members(merger.passed0)
                 /\ i > 1 => merger.returned[i - 1] < id
                 /\ merger.heap[id].scene_number = i - 1
                 /\ merger.heap[id].begin_pts = merger.heap0[id].begin_pts
                 /\ merger.heap[id].begin_pts_time = merger.heap0[id].begin_pts_time
                 /\ merger.heap[id].end_pts = merger.heap0[last].end_pts
                 /\ merger.heap[id].end_pts_time = merger.heap0[last].end_pts_time
                 /\ merger.heap[id].end_scene_score = merger.heap0[last].end_scene_score
       /\ \A id \in Members(merger.passed0) \ Members(merger.returned) :
             merger.heap[id] = merger.heap0[id]

\* C29 witness: a call that changed the end of the first scene passed and
\* left a scene out of the list returned.
C29_Witness ==
    /\ merger.pc = "merged"
    /\ Len(merger.passed0) >= 3
    /\ Len(merger.returned) >= 2
    /\ merger.heap[1].end_pts_time # merger.heap0[1].end_pts_time
    /\ 2 \notin Members(merger.returned)
    /\ merger.passed = <<>>

\* ---------------------------------------------------------------- C30
\* C30: in the list the parser returns the first scene begins at pts 0 and
\* second 0, each later scene begins (pts and seconds) where the scene before
\* it ends, the scene numbers are 0..n-1 in list order, and no scene but the
\* last is an end scene.
C30_ParsedContiguousAndDense ==
    parser.pc = "parsed"
    => LET list == parser.scenes
       IN  /\ list[1].begin_pts = Some(0)
           /\ list[1].begin_pts_time = Some(0)
           /\ \A i \in 2..Len(list) :
                 /\ list[i].begin_pts = list[i - 1].end_pts
                 /\ list[i].begin_pts_time = list[i - 1].end_pts_time
           /\ \A i \in 1..Len(list) : list[i].scene_number = i - 1
           /\ \A i \in 1..(Len(list) - 1) : ~is_end_scene(list[i])

\* C30 witness: two valid pairs with different times, three scenes.
C30_Witness ==
    /\ parser.pc = "parsed"
    /\ Len(parser.scenes) = 3
    /\ parser.scenes[1].end_pts_time # parser.scenes[2].end_pts_time
    /\ parser.scenes[3].begin_pts_time = parser.scenes[2].end_pts_time
    /\ is_end_scene(parser.scenes[3])

\* ---------------------------------------------------------------- C24
\* The input file whose metadata was being collected when the run ended.
LastProbed == CHOOSE f \in probed : \A g \in probed : g <= f

\* C24: a metadata validation error of one input file ends the work on that
\* file only: the run goes on, and the other input files are collected and
\* taken by the loop of main.
C24_ValidationErrorIsLocal ==
    exception = "ValueError"
    => /\ pc # "crashed"
       /\ \A f \in Files \ {LastProbed} : f \in probed

\* ---------------------------------------------------------------- C25
\* No command line of the current file is running: no encoder, no scene cut
\* detection, no concatenation.
NothingRunning ==
    /\ \A st \in Stages : \A s \in DOMAIN cli[st] : cli[st][s].state # "Running"
    /\ \A i \in 1..Len(batch) : cli[stage][batch[i]].state \in {"Succeeded", "Failed"}
    /\ concat # "Running"

\* C25: the input files are processed one after another.  When the loop takes
\* the next file, no job of the file before it is running or waiting and it
\* is decided whether that file was skipped, left incomplete or concatenated;
\* nothing of a later file has been prepared, detected, encoded or finalized,
\* and what was recorded for an earlier file does not change any more.
C25_FilesOneAfterAnother ==
    [][ /\ fileIdx' # fileIdx
           => /\ fileIdx' = fileIdx + 1
              /\ pc = "main"
              /\ NothingRunning
              /\ fileIdx > 0
                 => outcome[fileIdx] \in {"prepare_failed", "not_completed", "concatenated"}
        /\ \A f \in Files : f > fileIdx' => outcome'[f] = "untouched"
        /\ \A f \in Files : f < fileIdx => outcome'[f] = outcome[f]
        /\ pc \in {"prepare", "detect", "parse", "transcode", "running", "pass2", "decide",
                   "concat", "cleanup"} => fileIdx' = fileIdx ]_vars

\* C25 witness: the second file is being encoded after the first file ran
\* encoders and was decided.
C25_Witness ==
    /\ fileIdx = 2
    /\ pc = "running"
    /\ \E s \in Range(batch) : cli[stage][s].state = "Running"
    /\ outcome[1] \in {"not_completed", "concatenated"}
    /\ encodes > 0

\* ---------------------------------------------------------------- C26
\* The command lines of a stage that were handed to the pool and have not
\* returned yet.
Unreturned(st) ==
    {s \in DOMAIN cli[st] :
        \/ cli[st][s].state = "Running"
        \/ st = stage /\ s \in Range(batch) /\ cli[st][s].state = "Pending"}

\* C26: with two passes no second pass of a file starts before every first
\* pass handed to the pool has succeeded or failed, and the decision to
\* concatenate or not is taken only after every second pass (or single pass)
\* handed to the pool has succeeded or failed.
C26_StagesWaitForTheBatch ==
    [][ /\ (stage = "pass1" /\ stage' # "pass1") => Unreturned("pass1") = {}
        /\ (cli'["pass2"] # <<>> \/ pc' = "pass2") => Unreturned("pass1")' = {}
        /\ (pc' \in {"decide", "concat", "cleanup"} \/ (pc = "running" /\ pc' = "main"))
           => \A st \in Stages : Unreturned(st) = {} /\ Unreturned(st)' = {} ]_vars

\* C26 witness: a second pass is running after two first passes were handed
\* to the pool, one of which failed.
C26_Witness ==
    /\ stage = "pass2"
    /\ pc = "running"
    /\ \E s \in DOMAIN cli["pass2"] : cli["pass2"][s].state = "Running"
    /\ \E s \in DOMAIN cli["pass1"] : cli["pass1"][s].state = "Failed"
    /\ \E s \in DOMAIN cli["pass1"] : cli["pass1"][s].state = "Succeeded"

\* ---------------------------------------------------------------- C27
\* C27: arguments.limit_encodes changes only in a step of the scheduler
\* thread, taken when every command line of the batch has returned: never in
\* a step of a worker and never between the hand over of a batch and its join.
C27_BudgetChangesOnlyAtJoin ==
    [][ arguments'.limit_encodes # arguments.limit_encodes
        => /\ cli' = cli
           /\ pc = "running"
           /\ stage \in {"single", "pass2"}
           /\ \A st \in Stages : Unreturned(st) = {} ]_vars

\* C27 witness: the join of a batch of two took two encodes off the limit.
C27_Witness ==
    /\ pc = "decide"
    /\ Len(batch) = 2
    /\ HasLimit(arguments.limit_encodes)
    /\ LimitValue(arguments.limit_encodes) = LimitValue(limitFile0) - 2

\* ---------------------------------------------------------------- C37
\* C37: for a list passed that is not empty, is contiguous and has no end
\* scene but the last, every scene returned but the last is at least
\* min_scene_length long; only the last scene returned may be shorter or an
\* end scene.
C37_OnlyLastSceneMayBeShort ==
    (MergerReturned /\ merger.passed0 # <<>>)
    => \A i \in 1..(Len(merger.returned) - 1) :
          LET scene == merger.heap[merger.returned[i]]
          IN  /\ ~is_end_scene(scene)
              /\ scene.end_pts_time[1] - scene.begin_pts_time[1] >= merger.min_scene_length

\* C37 witness: scenes were merged, and a scene returned that is not the last
\* is exactly min_scene_length long.
C37_Witness ==
    /\ merger.pc = "merged"
    /\ merger.min_scene_length >= 2
    /\ Len(merger.returned) >= 3
    /\ Len(merger.returned) < Len(merger.passed0)
    /\ \E i \in 1..(Len(merger.returned) - 1) :
          length_seconds(merger.heap[merger.returned[i]]) = Some(merger.min_scene_length)

\* ---------------------------------------------------------------- C38
\* C38: for a list passed that is not empty, the first scene returned begins
\* where the first scene passed began, the last scene returned ends (seconds,
\* pts and score) where the last scene passed ended, every end of a scene
\* returned is the end of a scene passed, and the last scene returned is an
\* end scene exactly if the last scene passed was one.
C38_MergerKeepsTheVideoTime ==
    (MergerReturned /\ merger.passed0 # <<>>)
    => LET input == Scenes(merger.heap0, merger.passed0)
           output == Scenes(merger.heap, merger.returned)
       IN  /\ output # <<>>
           /\ output[1].begin_pts_time = input[1].begin_pts_time
           /\ output[1].begin_pts = input[1].begin_pts
           /\ output[Len(output)].end_pts_time = input[Len(input)].end_pts_time
           /\ output[Len(output)].end_pts = input[Len(input)].end_pts
           /\ output[Len(output)].end_scene_score = input[Len(input)].end_scene_score
           /\ \A i \in 1..Len(output) :
                 \E j \in 1..Len(input) :
                    /\ output[i].end_pts_time = input[j].end_pts_time
                    /\ output[i].end_pts = input[j].end_pts
                    /\ output[i].end_scene_score = input[j].end_scene_score
           /\ is_end_scene(output[Len(output)]) <=> is_end_scene(input[Len(input)])

\* C38 witness: the last scene before the end scene was short and was merged
\* into the end scene, after an earlier scene was returned on its own.
C38_Witness ==
    /\ merger.pc = "merged"
    /\ Len(merger.passed0) >= 4
    /\ Len(merger.returned) >= 2
    /\ merger.returned[Len(merger.returned)] # merger.passed0[Len(merger.passed0)]
    /\ is_end_scene(merger.heap[merger.returned[Len(merger.returned)]])

\* ---------------------------------------------------------------- C39
\* C39: all_scenes_completed yields a boolean whatever completed_dir holds; a
\* file matching scene_*.mkv without a canonical scene number makes it False
\* and does not end the run.
C39_AllScenesCompletedNeverRaises ==
    /\ pc = "decide" => all_scenes_completed(completed_dir, scenes) \in {"True", "False"}
    /\ (pc = "decide" /\ \E name \in completed_dir.scenes : stream_number_re_match(name) = <<>>)
       => all_scenes_completed(completed_dir, scenes) = "False"
    /\ exception # "TypeError"

\* ---------------------------------------------------------------- C32
\* Scene a comes before scene b in the cost ordering: its first pass log is
\* larger, or the logs are of equal size and a is the earlier scene.
CostBefore(a, b, sizes) ==
    \/ sizes[a] > sizes[b]
    \/ sizes[a] = sizes[b] /\ a < b

\* C32: the second passes handed to the pool are in descending order of the
\* byte size of the first pass log of their scene, scenes with logs of equal
\* size in scene order, and the limit cuts this ordered list: a ready second
\* pass that is cut off comes after every second pass that is kept.
C32_SecondPassesByLogSize ==
    [][ (pc = "pass2" /\ pc' = "running")
        => /\ \A i, j \in 1..Len(batch') :
                 i < j => CostBefore(batch'[i], batch'[j], log_sizes')
           /\ batch' # <<>>
              => \A s \in Range(FinishedFirstPasses) \ Range(batch') :
                    \A b \in Range(batch') : CostBefore(b, s, log_sizes') ]_vars

\* C32 witness: the later scene has the larger log and is handed over first.
C32_Witness ==
    /\ pc = "running"
    /\ stage = "pass2"
    /\ batch = <<1, 0>>
    /\ log_sizes[1] > log_sizes[0]

\* ---------------------------------------------------------------- C35
\* C35: with a limit configured, arguments.limit_encodes is never negative
\* and never grows; it changes only by the number of finished command lines
\* of the batch joined, which is at most its value when the batch was cut.
C35_BudgetNeverNegative ==
    [][ HasLimit(limit0)
        => /\ HasLimit(arguments'.limit_encodes)
           /\ LimitValue(arguments'.limit_encodes) >= 0
           /\ LimitValue(arguments'.limit_encodes) <= LimitValue(arguments.limit_encodes)
           /\ arguments'.limit_encodes # arguments.limit_encodes
              => /\ LimitValue(arguments.limit_encodes) - LimitValue(arguments'.limit_encodes)
                       = Cardinality({s \in Range(batch) : cli[stage][s].finished})
                 /\ Len(batch) <= LimitValue(arguments.limit_encodes) ]_vars

\* C35 witness: the limit was used up over two input files.
C35_Witness ==
    /\ fileIdx = 2
    /\ pc = "decide"
    /\ limit0 = Limit(MaxLimit)
    /\ limitFile0 = Limit(1)
    /\ arguments.limit_encodes = Limit(0)

C33_FailedDetectionRaises ==
    [][ (pc = "parse" /\ detection = "Failed")
        => /\ pc' = "crashed"
           /\ scenes' = 0
           /\ cli' = NoCommandLines ]_vars

\* ================================================= metadata collection alone
\* collector.chapters and collector.video_streams are the lists of one
\* InputFile, collector.exception what the last call of collect_file_data
\* raised, and collector.chapters0 / collector.video_streams0 the lists as
\* they were when that call started.

\* What ffprobe reports for the file: the chapters with their times, and the
\* number of video streams.
ChapterElements == [start_time : 0..MaxTime, end_time : 0..MaxTime]
ProbeOutputs ==
    [chapters : UNION {[1..n -> ChapterElements] : n \in 0..MaxChapters},
     streams : 0..MaxStreams]

\* Chapter._validate_chapter_times
_validate_chapter_times(chapter) ==
    IF chapter.end_time < chapter.start_time THEN "ValueError" ELSE "None"

\* InputFile._extract_chapters: the chapters are appended one by one, and the
\* constructor of a chapter that ends before it starts raises.
RECURSIVE _extract_chapters(_, _, _)
_extract_chapters(chapters, elements, number) ==
    IF number > Len(elements) THEN [exception |-> "None", chapters |-> chapters]
    ELSE IF _validate_chapter_times(elements[number]) # "None"
         THEN [exception |-> "ValueError", chapters |-> chapters]
         ELSE _extract_chapters(
                 Append(chapters, [start_time |-> elements[number].start_time,
                                   end_time |-> elements[number].end_time,
                                   number |-> number]),
                 elements, number + 1)

\* InputFile._extract_streams
_extract_streams(video_streams, streams) ==
    video_streams \o [i \in 1..streams |-> [stream_id |-> i - 1]]

\* InputFile.collect_file_data on the lists of self, with what ffprobe reports
collect_file_data(self, probe) ==
    IF self.chapters # <<>> \/ self.video_streams # <<>>
    THEN [self EXCEPT !.exception = "RuntimeError"]
    ELSE LET r == _extract_chapters(self.chapters, probe.chapters, 1)
         IN  IF r.exception # "None"
             THEN [self EXCEPT !.exception = r.exception, !.chapters = r.chapters]
             ELSE [self EXCEPT !.exception = "None", !.chapters = r.chapters,
                               !.video_streams = _extract_streams(self.video_streams,
                                                                  probe.streams)]

\* InputFile.__init__: both lists are empty
CollectInit ==
    /\ IdleMain([force_overwrite |-> FALSE, dump_commands |-> "no",
                 enable_single_pass_encode |-> FALSE, keep_temp |-> FALSE,
                 max_concurrent_encodes |-> MaxWorkers, limit_encodes |-> NoLimit])
    /\ prep = NoPrep
    /\ parser = NoParser
    /\ merger = NoMerger
    /\ listing = NoListing
    /\ collector = [pc |-> "new", exception |-> "None",
                    chapters |-> <<>>, video_streams |-> <<>>,
                    chapters0 |-> <<>>, video_streams0 |-> <<>>]

\* in_file.collect_file_data(), the first call and a second one
CollectFileData ==
    /\ collector.pc \in {"new", "called"}
    /\ \E probe \in ProbeOutputs :
          collector' = [collect_file_data(collector, probe)
                           EXCEPT !.pc = IF collector.pc = "new" THEN "called"
                                         ELSE "called_again",
                                  !.chapters0 = collector.chapters,
                                  !.video_streams0 = collector.video_streams]
    /\ UNCHANGED <<mainVars, prep, parser, merger, listing>>

CollectNext == CollectFileData

CollectSpec == CollectInit /\ [][CollectNext]_vars

\* ---------------------------------------------------------------- C34
\* C34: a second call of collect_file_data on the same input file raises
\* RuntimeError and leaves the chapters and video streams collected as they
\* were, whatever the first call collected, nothing included.
C34_SecondCollectRaises ==
    collector.pc = "called_again"
    => /\ collector.exception = "RuntimeError"
       /\ collector.chapters = collector.chapters0
       /\ collector.video_streams = collector.video_streams0

\* ===================================================== the scene listing
\* A path is a sequence of tokens: the resolved completed_dir is
\* <<"/ep", "2", "/scene_">> (a directory with a number in its name, and the
\* start of the file name), followed by the part of the name the star of
\* scene_*.mkv stands for, as in completed_dir.scenes, and ".mkv".
ScenePath(name) == <<"/ep", "2", "/scene_">> \o name \o <<".mkv">>
SceneName(path) == SubSeq(path, 4, Len(path) - 1)

\* The order of the tokens as strings: "." < "/" < "0" < ... < "9" < "x",
\* and "/ep" < "/scene_".
TokenRank(t) ==
    CASE t = ".mkv" -> 1 [] t = "/ep" -> 2 [] t = "/scene_" -> 3
      [] t \in Digits -> 4 + DigitValue(t) [] t = "x" -> 14

\* a < b for two strings
RECURSIVE StringLess(_, _)
StringLess(a, b) ==
    IF b = <<>> THEN FALSE
    ELSE IF a = <<>> THEN TRUE
    ELSE IF Head(a) = Head(b) THEN StringLess(Tail(a), Tail(b))
    ELSE TokenRank(Head(a)) < TokenRank(Head(b))

\* _REG_EXP.split(s) with _REG_EXP = ([0-9]+): the runs of other characters
\* at the odd places (possibly empty), the runs of digits at the even places.
RECURSIVE _REG_EXP_split(_, _)
_REG_EXP_split(s, chunks) ==
    IF s = <<>>
    THEN IF Len(chunks) % 2 = 0 THEN Append(chunks, <<>>) ELSE chunks
    ELSE LET in_digits == Len(chunks) % 2 = 0
             last == chunks[Len(chunks)]
         IN  IF (Head(s) \in Digits) = in_digits
             THEN _REG_EXP_split(Tail(s),
                                 [chunks EXCEPT ![Len(chunks)] = Append(last, Head(s))])
             ELSE _REG_EXP_split(Tail(s), Append(chunks, <<Head(s)>>))

\* try_convert_int: int(s), or s itself when int raises ValueError
try_convert_int(c) ==
    IF c # <<>> /\ \A i \in 1..Len(c) : c[i] \in Digits
    THEN [kind |-> "int", int |-> DecimalValue(c), str |-> <<>>]
    ELSE [kind |-> "str", int |-> 0, str |-> c]

\* the key that is the path itself: plain string order
plain_key(s) == <<[kind |-> "str", int |-> 0, str |-> s]>>

\* alphanum_key
alphanum_key(s) ==
    LET chunks == _REG_EXP_split(s, << <<>> >>)
    IN  [i \in 1..Len(chunks) |-> try_convert_int(chunks[i])]

\* a < b for two keys, compared as Python compares lists.  The kinds of the
\* chunks alternate in every key, so chunks at the same place are of one kind.
RECURSIVE KeyLess(_, _)
KeyLess(a, b) ==
    IF b = <<>> THEN FALSE
    ELSE IF a = <<>> THEN TRUE
    ELSE IF Head(a) = Head(b) THEN KeyLess(Tail(a), Tail(b))
    ELSE IF Head(a).kind = "int" THEN Head(a).int < Head(b).int
    ELSE StringLess(Head(a).str, Head(b).str)

\* sorted(l, key=alphanum_key): one more element put into a sorted list,
\* behind the elements whose key is not greater
RECURSIVE InsertByKey(_, _)
InsertByKey(sorted, s) ==
    IF sorted = <<>> THEN <<s>>
    ELSE IF KeyLess(alphanum_key(s), alphanum_key(Head(sorted)))
         THEN <<s>> \o sorted
         ELSE <<Head(sorted)>> \o InsertByKey(Tail(sorted), s)

\* natural_sorted
RECURSIVE natural_sorted(_)
natural_sorted(l) ==
    IF l = <<>> THEN <<>>
    ELSE InsertByKey(natural_sorted(SubSeq(l, 1, Len(l) - 1)), l[Len(l)])

\* The files completed_dir.glob("scene_*.mkv") yields when all_scenes_completed
\* was True for n scenes: scene_0.mkv .. scene_<n-1>.mkv, and possibly a file
\* such as scene_1.mkvx.mkv, whose name starts like that of a scene.
CompletedNames(n, stray) ==
    [i \in 1..n |-> output_scene_file_name(i - 1)]
    \o (IF stray = <<>> THEN <<>>
        ELSE <<output_scene_file_name(stray[1]) \o <<".mkv", "x">> >>)

\* The orders the glob may yield the files in: any rotation of the order of
\* the numbers, forwards or backwards.
Rotate(l, r) == [i \in 1..Len(l) |-> l[((i + r - 1) % Len(l)) + 1]]
Reverse(l) == [i \in 1..Len(l) |-> l[Len(l) + 1 - i]]
GlobOrders(l) ==
    {Rotate(l, r) : r \in 0..(Len(l) - 1)} \cup {Reverse(Rotate(l, r)) : r \in 0..(Len(l) - 1)}

ListingInit ==
    /\ IdleMain([force_overwrite |-> FALSE, dump_commands |-> "no",
                 enable_single_pass_encode |-> FALSE, keep_temp |-> FALSE,
                 max_concurrent_encodes |-> MaxWorkers, limit_encodes |-> NoLimit])
    /\ prep = NoPrep
    /\ parser = NoParser
    /\ merger = NoMerger
    /\ collector = NoCollector
    /\ \E n \in 1..(MaxListed + 1) :
       \E stray \in {<<>>} \cup {<<k>> : k \in 0..(n - 1)} :
       \E order \in GlobOrders(CompletedNames(n, stray)) :
          listing = [pc |-> "glob", scenes_required |-> n,
                     glob |-> [i \in 1..Len(order) |-> ScenePath(order[i])],
                     scenes |-> <<>>]

\* ConcatFilterCommandLine.run_hook: scenes = natural_sorted(scene_paths)
RunHook ==
    /\ listing.pc = "glob"
    /\ listing' = [listing EXCEPT !.pc = "listed", !.scenes = natural_sorted(listing.glob)]
    /\ UNCHANGED <<mainVars, prep, parser, merger, collector>>

ListingNext == RunHook

ListingSpec == ListingInit /\ [][ListingNext]_vars

\* ---------------------------------------------------------------- C31
\* The place of a path in the listing.
Place(path) == CHOOSE i \in 1..Len(listing.scenes) : listing.scenes[i] = path

\* C31: the listing holds every file of completed_dir matching scene_*.mkv
\* exactly once, and the files are in ascending order of their scene number
\* as a number (scene_2.mkv before scene_11.mkv), not in the order of their
\* names as strings.
C31_ListingInSceneNumberOrder ==
    listing.pc = "listed"
    => /\ Len(listing.scenes) = Len(listing.glob)
       /\ \A i \in 1..Len(listing.glob) :
             Cardinality({j \in 1..Len(listing.scenes) : listing.scenes[j] = listing.glob[i]}) = 1
       /\ \A i, j \in 1..Len(listing.scenes) :
             i < j => stream_number_re_match(SceneName(listing.scenes[i]))[1]
                         <= stream_number_re_match(SceneName(listing.scenes[j]))[1]
       /\ \A a, b \in 0..(listing.scenes_required - 1) :
             a < b => Place(ScenePath(output_scene_file_name(a)))
                         < Place(ScenePath(output_scene_file_name(b)))

\* C31 witness: the glob yielded scene_11.mkv before scene_2.mkv, and the
\* listing has scene_2.mkv before scene_10.mkv and scene_11.mkv.
C31_Witness ==
    /\ listing.pc = "listed"
    /\ listing.scenes_required >= 12
    /\ \E i, j \in 1..Len(listing.glob) :
          /\ i < j
          /\ listing.glob[i] = ScenePath(<<"1", "1">>)
          /\ listing.glob[j] = ScenePath(<<"2">>)
    /\ listing.scenes[3] = ScenePath(<<"2">>)
    /\ listing.scenes[11] = ScenePath(<<"1", "0">>)
    /\ listing.scenes[12] = ScenePath(<<"1", "1">>)

\* ============================================================ termination
\* The driver is one thread that runs on, the pool runs a submitted command
\* line as soon as a worker is free, and every external tool that was started
\* exits: a step that is possible is taken at some time.
FairSpec == Init /\ [][Next]_vars /\ WF_vars(Next)

\* ---------------------------------------------------------------- C40
\* The decision of transcode_input_file about file f was taken: the
\* concatenation was started, or it was skipped.
DecisionTaken(f) ==
    /\ fileIdx = f
    /\ pc \in {"concat", "cleanup"} \/ outcome[f] \in {"not_completed", "concatenated"}

\* C40: when every external tool exits, the run ends; every command line
\* handed to the pool ends as Succeeded or Failed; every batch is joined;
\* every file whose directories were prepared reaches the decision between
\* the concatenation and skipping it; and after the decision the driver takes
\* the next file or stops.
C40_RunTerminatesThroughTheDecision ==
    /\ <>(pc \in {"done", "crashed"})
    /\ \A st \in Stages : \A s \in 0..(MaxScenes - 1) :
          (s \in DOMAIN cli[st] /\ cli[st][s].state = "Running")
             ~> (s \in DOMAIN cli[st] /\ cli[st][s].state \in {"Succeeded", "Failed"})
    /\ (pc = "running") ~> (pc \in {"pass2", "decide"})
    /\ \A f \in Files : (fileIdx = f /\ pc = "detect") ~> DecisionTaken(f)
    /\ \A f \in Files : DecisionTaken(f) ~> (pc \in {"done", "crashed"} \/ fileIdx # f)
====
